---- MODULE Spec2Model ----
(***************************************************************************)
(* A model of the Shelly Dimmer driver (components/shelly_dimmer/          *)
(* shelly_dimmer.cpp): the framed application protocol over the UART       *)
(* (frame_command_, send_command_, read_frame_, handle_byte_,              *)
(* handle_frame_), the boot controller (reset_, reset_normal_boot_,        *)
(* reset_dfu_boot_), the firmware upgrade (handle_firmware,                *)
(* upgrade_firmware_) and the driver lifecycle (setup, write_state).       *)
(*                                                                         *)
(* Bytes are integers 0..255.  A C array indexed from 0 is a sequence      *)
(* indexed from 1: buffer_[i] is At(buffer_, i).  The receive buffer keeps *)
(* only the entries below buffer_pos_ (and the byte just stored): the code *)
(* never reads an entry at or above buffer_pos_ before it has rewritten it.*)
(*                                                                         *)
(* A uint32_t is a pair of 16-bit halves, high first.  The millisecond     *)
(* clock is read only relative to tx_time, so every send_command_ call     *)
(* starts from a clock value the environment gives.  Floats (brightness,   *)
(* calibration table) are counted in thousandths.  Functions that are not  *)
(* in this file (stm32_init, stm32_erase_memory, stm32_write_memory,       *)
(* rtc_.load, the light's brightness) are inputs.  pc is the stack of      *)
(* program points of the single cooperative context; log is the history of *)
(* what the driver has done.                                               *)
(*                                                                         *)
(* The specifications share the state.  SpecFrame feeds read_frame_ byte   *)
(* by byte with frames frame_command_ built and with damaged streams;      *)
(* SpecProto runs send_command_ against a dimmer MCU that may answer well, *)
(* late, in pieces, wrongly or not at all; Spec runs the driver from       *)
(* before setup on, against a dimmer MCU that answers at once or not.      *)
(*                                                                         *)
(* The calibration (start_calibration, clear_calibration, update and what  *)
(* it calls) and the light's write_state are run after setup, one action   *)
(* per call: SpecCal makes the periodic ticks of calibration runs, with a  *)
(* lamp or nothing on the dimmer, with POLLs that get no answer, with and  *)
(* without a power sensor; SpecCalFair adds that the ticks keep coming;    *)
(* SpecFinal applies complete_calibration_ to tables of per-step means;    *)
(* SpecLight makes write_state calls against the tables a calibration      *)
(* leaves.  In these a send_command_ call is taken from its call to its    *)
(* return (send_command_), with the response the dimmer MCU gives or its   *)
(* silence.  NaN stands for the float that is no number: no comparison     *)
(* with it is true.  SpecIndex joins the calibration runs of SpecCal with  *)
(* read_frame_ fed byte by byte with the longest frame buffer_ takes and   *)
(* with headers that announce longer ones.                                 *)
(***************************************************************************)
EXTENDS Integers, Sequences, FiniteSets, TLC

\* ------------------------------------------------------------ constants
SHELLY_DIMMER_ACK_TIMEOUT == 200
SHELLY_DIMMER_MAX_RETRIES == 3
SHELLY_DIMMER_MAX_BRIGHTNESS == 1000
SHELLY_DIMMER_PROTO_START_BYTE == 1
SHELLY_DIMMER_PROTO_END_BYTE == 4
SHELLY_DIMMER_PROTO_CMD_SWITCH == 1
SHELLY_DIMMER_PROTO_CMD_POLL == 16
SHELLY_DIMMER_PROTO_CMD_VERSION == 17
SHELLY_DIMMER_PROTO_CMD_SETTINGS == 32
SHELLY_DIMMER_PROTO_CMD_SWITCH_SIZE == 2
SHELLY_DIMMER_PROTO_CMD_SETTINGS_SIZE == 10
\* shelly_dimmer.h: the size of buffer_ (uint8_t buffer_[SHELLY_DIMMER_BUFFER_SIZE])
SHELLY_DIMMER_BUFFER_SIZE == 256

Byte == 0..255
U8(x) == x % 256
U16(x) == x % 65536

\* A uint32_t is the pair <<high half, low half>> of its 16-bit halves.
U32Of(n) == <<0, n>>
U32Sub(a, b) ==
  LET lo     == a[2] - b[2]
      borrow == IF lo < 0 THEN 1 ELSE 0
  IN  <<(a[1] - b[1] - borrow + 65536) % 65536, (lo + 65536) % 65536>>
\* a + n for a number n below 2^16
U32Add(a, n) ==
  LET lo == a[2] + n
  IN  IF lo >= 65536 THEN <<(a[1] + 1) % 65536, lo - 65536>> ELSE <<a[1], lo>>
U32Inc(a) == U32Add(a, 1)
\* a < n and a >= n for a uint32_t a and a number n below 2^16
U32Below(a, n) == a[1] = 0 /\ a[2] < n
U32AtLeast(a, n) == ~U32Below(a, n)

\* C indexing of a sequence
At(s, i) == s[i + 1]

\* ------------------------------------------------------------ bounds
\* send_command_ calls made by the protocol harness
MaxCalls == 2
\* iterations of the ack loop that are taken one by one in each ack window
MaxPolls == 1
\* frames the dimmer MCU emits in a run
MaxReplies == 1
\* bytes that arrive together, unless all that is on the line arrives
MaxChunk == 3

\* ------------------------------------------------------------ framing
RECURSIVE SumBytes(_)
SumBytes(s) ==
  IF s = <<>> THEN 0
  ELSE IF Len(s) = 1 THEN s[1]
  ELSE SumBytes(SubSeq(s, 1, Len(s) \div 2)) + SumBytes(SubSeq(s, Len(s) \div 2 + 1, Len(s)))

\* a slip: the sum kept in 8 bits
shelly_dimmer_checksum_u8(bytes) == U8(SumBytes(bytes))

\* shelly_dimmer_checksum: std::accumulate into a uint16_t
shelly_dimmer_checksum(bytes) == U16(SumBytes(bytes))

\* data[1] = ++this->seq_  (uint8_t)
NextSeq(s) == U8(s + 1)

\* a slip: data[1] = this->seq_++ (the frame carries the value before the increment)
frame_command_postinc(seq, cmd, payload) ==
  LET len  == Len(payload)
      body == <<SHELLY_DIMMER_PROTO_START_BYTE, seq, cmd, U8(len)>> \o payload
      csum == shelly_dimmer_checksum(SubSeq(body, 2, 4 + len))
  IN  body \o <<U8(csum \div 256), csum % 256, SHELLY_DIMMER_PROTO_END_BYTE>>

\* frame_command_ called with seq_ = seq: the bytes of the frame (data, pos);
\* seq_ becomes NextSeq(seq)
frame_command_(seq, cmd, payload) ==
  LET len  == Len(payload)
      body == <<SHELLY_DIMMER_PROTO_START_BYTE, NextSeq(seq), cmd, U8(len)>> \o payload
      csum == shelly_dimmer_checksum(SubSeq(body, 2, 4 + len))
  IN  body \o <<U8(csum \div 256), csum % 256, SHELLY_DIMMER_PROTO_END_BYTE>>

\* a slip: the checksum is not verified
handle_byte_nocsum(buf, pos, c) ==
  IF pos = 0 THEN (IF c = SHELLY_DIMMER_PROTO_START_BYTE THEN 1 ELSE -1)
  ELSE IF pos < 4 THEN 1
  ELSE LET payload_len == At(buf, 3) IN
    IF (4 + payload_len + 3) > SHELLY_DIMMER_BUFFER_SIZE THEN -1
    ELSE IF pos < 4 + payload_len + 2 THEN 1
    ELSE IF pos = 4 + payload_len + 2 THEN
      (IF c = SHELLY_DIMMER_PROTO_END_BYTE THEN 0 ELSE -1)
    ELSE -1

\* handle_byte_: buf is buffer_ after buffer_[pos] = c; 1 advance, -1 reset, 0 complete
handle_byte_(buf, pos, c) ==
  IF pos = 0 THEN (IF c = SHELLY_DIMMER_PROTO_START_BYTE THEN 1 ELSE -1)
  ELSE IF pos < 4 THEN 1
  ELSE LET payload_len == At(buf, 3) IN
    IF (4 + payload_len + 3) > SHELLY_DIMMER_BUFFER_SIZE THEN -1
    ELSE IF pos < 4 + payload_len + 1 THEN 1
    ELSE IF pos = 4 + payload_len + 1 THEN
      LET csum        == U16(At(buf, pos - 1) * 256 + c)
          csum_verify == shelly_dimmer_checksum(SubSeq(buf, 2, 4 + payload_len))
      IN  IF csum # csum_verify THEN -1 ELSE 1
    ELSE IF pos = 4 + payload_len + 2 THEN
      (IF c = SHELLY_DIMMER_PROTO_END_BYTE THEN 0 ELSE -1)
    ELSE -1

\* build-time defines USE_SHD_FIRMWARE_MAJOR_VERSION / _MINOR_VERSION
USE_SHD_FIRMWARE_MAJOR_VERSION == 51
USE_SHD_FIRMWARE_MINOR_VERSION == 6

\* scaling constants, and factor / raw for a uint32_t raw (a pair of halves) as a
\* fixed-point value in thousandths, rounded down; a raw of 2^30 or more gives
\* less than a thousandth
POWER_SCALING_FACTOR == 880373
VOLTAGE_SCALING_FACTOR == 347800
CURRENT_SCALING_FACTOR == 1448
Scaled(factor, raw) ==
  IF raw = <<0, 0>> \/ raw[1] >= 16384 THEN 0
  ELSE (factor * 1000) \div (raw[1] * 65536 + raw[2])

encode_uint16(msb, lsb) == msb * 256 + lsb
encode_uint32(b3, b2, b1, b0) == <<b3 * 256 + b2, b1 * 256 + b0>>

NoEffect == [kind |-> "none", a |-> 0, b |-> 0, c |-> 0]

\* handle_frame_ on a completed buffer: its return value, what it stores or
\* publishes (version: a = minor, b = major; poll: a, b, c = power, voltage, current)
\* and how many payload bytes it reads (read: it reads payload[0..read))
handle_frame_(buf, cur_seq) ==
  LET seq         == At(buf, 1)
      cmd         == At(buf, 2)
      payload_len == At(buf, 3)
      payload(i)  == At(buf, 4 + i)
  IN
  IF seq # cur_seq THEN [ret |-> FALSE, eff |-> NoEffect, read |-> 0]
  ELSE IF cmd = SHELLY_DIMMER_PROTO_CMD_POLL THEN
    IF payload_len < 16 THEN [ret |-> FALSE, eff |-> NoEffect, read |-> 0]
    ELSE LET power_raw   == encode_uint32(payload(7), payload(6), payload(5), payload(4))
             voltage_raw == encode_uint32(payload(11), payload(10), payload(9), payload(8))
             current_raw == encode_uint32(payload(15), payload(14), payload(13), payload(12))
             fade_rate   == payload(16)
         IN [ret |-> TRUE,
             eff |-> [kind |-> "poll",
                      a |-> Scaled(POWER_SCALING_FACTOR, power_raw),
                      b |-> Scaled(VOLTAGE_SCALING_FACTOR, voltage_raw),
                      c |-> Scaled(CURRENT_SCALING_FACTOR, current_raw)],
             read |-> 16 + 1]
  ELSE IF cmd = SHELLY_DIMMER_PROTO_CMD_VERSION THEN
    IF payload_len < 2 THEN [ret |-> FALSE, eff |-> NoEffect, read |-> 0]
    ELSE [ret |-> TRUE,
          eff |-> [kind |-> "version", a |-> payload(0), b |-> payload(1), c |-> 0],
          read |-> 2]
  ELSE IF cmd \in {SHELLY_DIMMER_PROTO_CMD_SWITCH, SHELLY_DIMMER_PROTO_CMD_SETTINGS} THEN
    [ret |-> ~(payload_len < 1 \/ payload(0) # 1), eff |-> NoEffect,
     read |-> IF payload_len < 1 THEN 0 ELSE 1]
  ELSE [ret |-> FALSE, eff |-> NoEffect, read |-> 0]

\* a slip: one attempt fewer
RetryAgainShort(r) == r > 1

\* while (retries--): the loop is entered while retries is not 0
RetryAgain(r) == r # 0

\* millis() - tx_time < SHELLY_DIMMER_ACK_TIMEOUT, in uint32_t arithmetic
AckWindowOpen(now, tx) == U32Below(U32Sub(now, tx), SHELLY_DIMMER_ACK_TIMEOUT)

\* The ack loop run with nothing to read, from inside an open window: each
\* iteration is delay(1), and the loop test first fails when millis() - tx_time
\* has reached SHELLY_DIMMER_ACK_TIMEOUT.
AckWaitSilent(now, tx) ==
  U32Add(now, SHELLY_DIMMER_ACK_TIMEOUT - U32Sub(now, tx)[2])

\* read_frame_, one iteration of while (available()): buffer_[buffer_pos_] = c,
\* then the switch on handle_byte_(c).  r = 0: the frame is complete.
read_byte_(buf0, pos, c) ==
  CHOOSE res \in
    { [r     |-> br[2],
       frame |-> br[1],
       buf   |-> IF br[2] = 1 THEN br[1] ELSE <<>>,
       pos   |-> IF br[2] = 1 THEN U8(pos + 1) ELSE 0] :
      br \in { <<buf, handle_byte_(buf, pos, c)>> :
               buf \in {Append(SubSeq(buf0, 1, pos), c)} } } : TRUE

\* read_frame_ on the bytes available: reads until a frame is complete (done, the
\* rest stays in the FIFO) or nothing is available
RECURSIVE read_frame_(_, _, _)
read_frame_(buf, pos, fifo) ==
  IF fifo = <<>> THEN [done |-> FALSE, frame |-> <<>>, buf |-> buf, pos |-> pos, rx |-> <<>>]
  ELSE CHOOSE res \in
         { IF st.r = 0
           THEN [done |-> TRUE, frame |-> st.frame, buf |-> st.buf, pos |-> st.pos,
                 rx |-> Tail(fifo)]
           ELSE read_frame_(st.buf, st.pos, Tail(fifo)) :
           st \in {read_byte_(buf, pos, Head(fifo))} } : TRUE

\* ------------------------------------------------------------ state
VARIABLES
  seq_,            \* uint8_t seq_
  buffer_,         \* receive buffer, entries below buffer_pos_
  buffer_pos_,     \* uint8_t buffer_pos_
  version_major_,
  version_minor_,
  sensors,         \* what the power, voltage and current sensors were last given
  rx,              \* UART receive FIFO: bytes available() to read()
  wire,            \* bytes the dimmer MCU has emitted that have not arrived yet
  frame,           \* send_command_: uint8_t frame[], frame_len
  retries,         \* send_command_: int retries
  tx_time,         \* send_command_: const uint32_t tx_time
  millis,          \* the millisecond clock
  polls,           \* ack-loop iterations taken one by one in this window
  pc,              \* stack of program points, the running one first
  arg_cmd,         \* send_command_: the argument cmd
  arg_payload,     \* send_command_: the argument payload (len bytes)
  calls,           \* send_command_ calls made so far
  t_entry,         \* millis() when the running send_command_ was entered
  seq_entry,       \* seq_ when the running send_command_ was entered
  tx_log,          \* the frames written to the UART by the running send_command_
  rx_seen,         \* a byte was available during the running send_command_
  replies,         \* frames the dimmer MCU has emitted (since the caller last went on)
  hf_frame,        \* the buffer handle_frame_ was last invoked on (<<>>: not yet)
  hf_ret,          \* what that handle_frame_ returned
  hf_count,        \* handle_frame_ invocations
  hf_read,         \* how many payload bytes that handle_frame_ read (payload[0..hf_read))
  rf_last,         \* the last read_frame_ iteration: the byte, where, the verdict
  stream,          \* the bytes the framing harness feeds to read_frame_
  sc_result,       \* what the last send_command_ returned ("none" while running)
  ready_,
  failed,          \* mark_failed() has been called
  brightness_,     \* uint16_t brightness_: the brightness last sent
  calibration_data_,  \* std::array<float, 20>, in thousandths
  calibrating_,
  calibration_step_,             \* int: -20..-1 warmup, 0..19 the step measured
  calibration_measurement_cnt_,  \* measurements of this step taken so far
  calibration_measurements_,     \* std::array<float, 20>, in thousandths (of a watt)
  update_interval_original_,     \* the interval start_calibration saved, ms
  update_interval,               \* the poller: get_update_interval(), ms
  light,           \* the light's current brightness, in thousandths
  saved,           \* the table last given to rtc_.save (<<>>: none yet)
  scen,            \* what the calibration is run against: the load on the
                   \* dimmer, the configured update interval, the budgets below
  may_lose,        \* POLLs the dimmer MCU may still leave unanswered
  may_start,       \* start_calibration calls still to come
  may_clear,       \* clear_calibration calls still to come
  may_tick,        \* ticks still to come while no calibration runs
  cfg,             \* min_brightness_, max_brightness_, leading_edge_, fade_rate_,
                   \* warmup_brightness_, warmup_time_ (set from the configuration)
  build,           \* USE_ESP_IDF, USE_SHD_FIRMWARE_DATA, sizeof(STM_FIRMWARE)
  pin_boot0,       \* level of the BOOT0 pin
  pin_nrst,        \* level of the NRST pin
  parity,          \* parity the UART is configured with
  dev_mode,        \* the dimmer MCU: "app", "dfu" (bootloader) or "held" (in reset)
  boot0_at_rise,   \* BOOT0 when NRST last went high
  rx_at_rise,      \* bytes in the receive FIFO when NRST last went high
  up_result,       \* what upgrade_firmware_ returned
  addr,            \* upgrade_firmware_: uint32_t addr
  offset,          \* upgrade_firmware_: uint32_t offset
  src_read_end,    \* end of the image bytes the last memcpy read
  arg_boot0,       \* reset_: the argument boot0
  arg_brightness,  \* send_brightness_: the argument brightness
  ws_calls,        \* write_state calls made so far
  ws_unready,      \* those of them made while ready_ was false
  log              \* what the driver has done so far, in order

objVars  == <<seq_, buffer_, buffer_pos_, version_major_, version_minor_, sensors>>
uartVars == <<rx, wire>>
scVars   == <<arg_cmd, arg_payload, frame, retries, tx_time, millis, polls>>
histVars == <<calls, t_entry, seq_entry, tx_log, rx_seen, replies,
              hf_frame, hf_ret, hf_count, hf_read, rf_last, stream, sc_result>>
lightVars == <<ready_, failed, brightness_, calibration_data_, calibrating_>>
cfgVars  == <<cfg, build>>
calVars  == <<calibration_step_, calibration_measurement_cnt_, calibration_measurements_,
              update_interval_original_, update_interval,
              light, saved, scen, may_lose, may_start, may_clear, may_tick>>
pinVars  == <<pin_boot0, pin_nrst, parity, dev_mode, boot0_at_rise, rx_at_rise>>
fwVars   == <<up_result, addr, offset, src_read_end>>
callVars == <<arg_boot0, arg_brightness>>
wsVars   == <<ws_calls, ws_unready>>
drvVars  == <<lightVars, cfgVars, calVars, pinVars, fwVars, callVars, wsVars, log>>
vars == <<objVars, uartVars, scVars, histVars, drvVars, pc>>

NoVerdict == [c |-> 0, pos |-> 0, r |-> 1, buf |-> <<>>, n |-> 0]

\* ------------------------------------------------------------ the dimmer MCU
\* A frame as the dimmer MCU puts it on the line (section 3 of the protocol).
WireFrame(s, c, p) ==
  LET sum == (s + c + Len(p) + SumBytes(p)) % 65536
  IN  <<1, s, c, Len(p)>> \o p \o <<sum \div 256, sum % 256, 4>>

WithByte(f, i, b) == [f EXCEPT ![i] = b]

PollPayload(raw, n) ==
  [i \in 1..n |-> IF i \in {5, 9, 13} THEN raw ELSE IF i = 1 THEN 1 ELSE 0]

\* The response the dimmer MCU gives to a request with sequence number s and
\* command c, and the ways it can fall short of it.
GoodReply(s, c) ==
  IF c = SHELLY_DIMMER_PROTO_CMD_VERSION
  THEN WireFrame(s, c, <<USE_SHD_FIRMWARE_MINOR_VERSION, USE_SHD_FIRMWARE_MAJOR_VERSION>>)
  ELSE IF c = SHELLY_DIMMER_PROTO_CMD_POLL THEN WireFrame(s, c, PollPayload(1, 17))
  ELSE WireFrame(s, c, <<1>>)

RejectedReplies(s, c) ==
  IF c = SHELLY_DIMMER_PROTO_CMD_VERSION
  THEN { WireFrame(s, c, <<USE_SHD_FIRMWARE_MINOR_VERSION>>) }
  ELSE IF c = SHELLY_DIMMER_PROTO_CMD_POLL
  THEN { WireFrame(s, c, PollPayload(2, 16)), WireFrame(s, c, PollPayload(2, 15)) }
  ELSE { WireFrame(s, c, <<0>>), WireFrame(s, c, <<>>) }

DamagedReplies(s, c) ==
  LET good == GoodReply(s, c)
      n    == Len(good)
  IN  { WithByte(good, n - 1, U8(good[n - 1] + 1)),
        <<0>> \o good,
        <<SHELLY_DIMMER_PROTO_START_BYTE>> \o good,
        SubSeq(good, 1, 3) }

DeviceReplies(f) ==
  LET s == f[2]
      c == f[3]
  IN  { GoodReply(s, c), GoodReply(U8(s + 255), c), WireFrame(s, 127, <<1>>) }
      \cup RejectedReplies(s, c) \cup DamagedReplies(s, c)
      \cup (IF c = SHELLY_DIMMER_PROTO_CMD_VERSION
            THEN { WireFrame(s, c, <<2, 50>>) } ELSE {})

\* What the driver as a whole is run against: the response, a rejection, or
\* (VERSION) another firmware version.
DriverReplies(f) ==
  LET s == f[2]
      c == f[3]
  IN  { GoodReply(s, c) }
      \cup (IF c = SHELLY_DIMMER_PROTO_CMD_VERSION THEN { WireFrame(s, c, <<2, 50>>) }
            ELSE IF c = SHELLY_DIMMER_PROTO_CMD_POLL THEN {}
            ELSE { WireFrame(s, c, <<0>>) })

Answers(f) == IF pc[Len(pc)] = "harness" THEN DeviceReplies(f) ELSE DriverReplies(f)

\* How many of the bytes on the line arrive together: none, MaxChunk, or all
\* (the driver as a whole: all).
Arrivals(w) ==
  IF pc[Len(pc)] = "harness" THEN { k \in 0..Len(w) : k \in {0, MaxChunk, Len(w)} }
  ELSE {Len(w)}

\* ------------------------------------------------------------ read_frame_
\* case 0 of read_frame_: handle_frame_() on the completed frame f; its return
\* value is not used
Dispatch(f) ==
  \E hf \in {handle_frame_(f, seq_)} :
    /\ hf_frame' = f
    /\ hf_ret' = hf.ret
    /\ hf_read' = hf.read
    /\ hf_count' = hf_count + 1
    /\ version_minor_' = IF hf.eff.kind = "version" THEN hf.eff.a ELSE version_minor_
    /\ version_major_' = IF hf.eff.kind = "version" THEN hf.eff.b ELSE version_major_
    /\ sensors' = IF hf.eff.kind = "poll"
                  THEN [has_state |-> TRUE, power |-> hf.eff.a,
                        voltage |-> hf.eff.b, current |-> hf.eff.c]
                  ELSE sensors

NoDispatch == UNCHANGED <<hf_frame, hf_ret, hf_count, hf_read, version_minor_, version_major_, sensors>>

\* ------------------------------------------------------------ send_command_
\* send_command_(cmd, payload), lines 317-324: frame_command_ and retries;
\* now is what millis() reads when the call starts
send_command_enter(cmd, payload, now) ==
  /\ seq_' = NextSeq(seq_)
  /\ arg_cmd' = cmd
  /\ arg_payload' = payload
  /\ frame' = frame_command_(seq_, cmd, payload)
  /\ retries' = SHELLY_DIMMER_MAX_RETRIES
  /\ calls' = calls + 1
  /\ t_entry' = now
  /\ millis' = now
  /\ seq_entry' = seq_
  /\ tx_log' = <<>>
  /\ rx_seen' = (rx # <<>>)
  /\ hf_frame' = <<>>
  /\ hf_ret' = FALSE
  /\ hf_count' = 0
  /\ hf_read' = 0
  /\ sc_result' = "none"
  /\ UNCHANGED <<buffer_, buffer_pos_, version_major_, version_minor_, sensors,
                 uartVars, tx_time, polls, replies, rf_last, stream>>

\* while (retries--) { write_array(frame); flush(); tx_time = millis(); ...
\* (the dimmer MCU may answer the frame)
ScWrite ==
  /\ Head(pc) = "sc_loop"
  /\ RetryAgain(retries)
  /\ retries' = retries - 1
  /\ tx_log' = Append(tx_log, frame)
  /\ tx_time' = millis
  /\ polls' = 0
  /\ \/ UNCHANGED <<wire, replies>>
     \/ /\ replies < MaxReplies
        /\ dev_mode = "app"
        /\ replies' = replies + 1
        /\ \E r \in Answers(frame) : wire' = wire \o r
  /\ pc' = <<"sc_wait">> \o Tail(pc)
  /\ UNCHANGED <<objVars, rx, arg_cmd, arg_payload, frame, millis, calls, t_entry, seq_entry, rx_seen,
                 hf_frame, hf_ret, hf_count, hf_read, rf_last, stream, sc_result>>
  /\ UNCHANGED drvVars

\* ... } return false;
ScFail ==
  /\ Head(pc) = "sc_loop"
  /\ ~RetryAgain(retries)
  /\ retries' = retries - 1
  /\ sc_result' = "false"
  /\ pc' = Tail(pc)
  /\ UNCHANGED <<objVars, uartVars, arg_cmd, arg_payload, frame, tx_time, millis, polls, calls, t_entry,
                 seq_entry, tx_log, rx_seen, replies, hf_frame, hf_ret, hf_count, hf_read, rf_last, stream>>
  /\ UNCHANGED drvVars

\* One iteration of the ack loop: the window is open; k bytes of the line have
\* arrived; read_frame_ reads what is available.  A complete frame goes to
\* handle_frame_ and read_frame_ and send_command_ return true; otherwise delay(1).
ScPoll ==
  /\ Head(pc) = "sc_wait"
  /\ AckWindowOpen(millis, tx_time)
  /\ polls < MaxPolls
  /\ polls' = polls + 1
  /\ \E k \in Arrivals(wire) :
      LET avail == rx \o SubSeq(wire, 1, k) IN
      \E rf \in {read_frame_(buffer_, buffer_pos_, avail)} :
      /\ wire' = SubSeq(wire, k + 1, Len(wire))
      /\ rx' = rf.rx
      /\ rx_seen' = (rx_seen \/ avail # <<>>)
      /\ buffer_' = rf.buf
      /\ buffer_pos_' = rf.pos
      /\ IF rf.done THEN
           /\ Dispatch(rf.frame)
           /\ sc_result' = "true"
           /\ pc' = Tail(pc)
           /\ UNCHANGED millis
         ELSE
           /\ NoDispatch
           /\ millis' = U32Inc(millis)
           /\ UNCHANGED <<sc_result, pc>>
  /\ UNCHANGED <<seq_, arg_cmd, arg_payload, frame, retries, tx_time, calls, t_entry, seq_entry, tx_log,
                 replies, rf_last, stream>>
  /\ UNCHANGED drvVars

\* the rest of the window passes with nothing available: read_frame_ returns
\* false and delay(1) runs until the window has closed
ScSilent ==
  /\ Head(pc) = "sc_wait"
  /\ AckWindowOpen(millis, tx_time)
  /\ rx = <<>>
  /\ 0 \in Arrivals(wire)
  /\ millis' = AckWaitSilent(millis, tx_time)
  /\ UNCHANGED <<objVars, uartVars, arg_cmd, arg_payload, frame, retries, tx_time, polls, histVars, pc>>
  /\ UNCHANGED drvVars

\* the window has closed: "Timeout while waiting for reply", next attempt
ScTimeout ==
  /\ Head(pc) = "sc_wait"
  /\ ~AckWindowOpen(millis, tx_time)
  /\ pc' = <<"sc_loop">> \o Tail(pc)
  /\ UNCHANGED <<objVars, uartVars, scVars, histVars>>
  /\ UNCHANGED drvVars

SendCommandStep == ScWrite \/ ScFail \/ ScPoll \/ ScSilent \/ ScTimeout

\* ------------------------------------------------------------ construction
\* Brightness and calibration values are floats in the code; here they are
\* counted in thousandths.
One == 1000

\* constexpr float CALIBRATION_STEP = 0.05f, in thousandths
CALIBRATION_STEP == 50

\* A float that is not a number (0.0f / 0.0f): it is unequal to every number and
\* no comparison with it holds.
NaN == -1
FLess(a, b) == a # NaN /\ b # NaN /\ a < b

\* calibration_data_ before anything is loaded: all 0
NoTable == [i \in 1..20 |-> 0]

\* the update interval of a configuration that does not name one, ms
DefaultInterval == 10000

\* no calibration is run
NoScenario == [lamp |-> "none", sensor |-> TRUE, null |-> "none", has_state |-> FALSE,
               interval |-> DefaultInterval,
               lose |-> 0, start |-> 0, clear |-> 0, tick |-> 0]

\* the driver's own state after construction, for a configuration c and a build b
InitDriver(c, b) ==
  /\ ready_ = FALSE /\ failed = FALSE /\ brightness_ = 0
  /\ calibration_data_ = NoTable /\ calibrating_ = FALSE
  /\ cfg = c /\ build = b
  /\ pin_nrst = TRUE /\ dev_mode = "app"
  /\ boot0_at_rise = FALSE /\ rx_at_rise = <<>>
  /\ up_result = FALSE /\ addr = 0 /\ offset = 0 /\ src_read_end = 0
  /\ arg_boot0 = FALSE /\ arg_brightness = 0
  /\ ws_calls = 0 /\ ws_unready = 0 /\ log = <<>>
  /\ calibration_step_ = 0 /\ calibration_measurement_cnt_ = 0
  /\ calibration_measurements_ = NoTable
  /\ update_interval_original_ = 0
  /\ update_interval = DefaultInterval
  /\ light = 0 /\ saved = <<>> /\ scen = NoScenario
  /\ may_lose = 0 /\ may_start = 0 /\ may_clear = 0 /\ may_tick = 0

\* the configuration and the build the two harnesses run with
PlainConfig ==
  [min_brightness |-> 0, max_brightness |-> SHELLY_DIMMER_MAX_BRIGHTNESS,
   leading_edge |-> FALSE, fade_rate |-> 0, warmup_brightness |-> 100, warmup_time |-> 20]
PlainBuild == [use_esp_idf |-> FALSE, shd_firmware_data |-> FALSE, fw_size |-> 0]

\* ------------------------------------------------------------ protocol harness
\* Commands the driver sends: SWITCH (send_brightness_), VERSION and POLL.
HarnessCommands ==
  { <<SHELLY_DIMMER_PROTO_CMD_SWITCH, <<232, 3>>>>,
    <<SHELLY_DIMMER_PROTO_CMD_VERSION, <<>>>>,
    <<SHELLY_DIMMER_PROTO_CMD_POLL, <<>>>> }

\* millis() when a call starts (the clock wraps during the call), and seq_ when
\* the harness starts (seq_ wraps at the first call)
ClockStart == <<65535, 65536 - 300>>
SeqStart == 255

HarnessSend ==
  /\ pc = <<"harness">>
  /\ calls < MaxCalls
  /\ \E cp \in HarnessCommands : send_command_enter(cp[1], cp[2], ClockStart)
  /\ pc' = <<"sc_loop">> \o pc
  /\ UNCHANGED drvVars

InitCommon ==
  /\ buffer_ = <<>> /\ buffer_pos_ = 0
  /\ version_major_ = 0 /\ version_minor_ = 0
  /\ sensors = [has_state |-> FALSE, power |-> 0, voltage |-> 0, current |-> 0]
  /\ rx = <<>> /\ wire = <<>>
  /\ arg_cmd = 0 /\ arg_payload = <<>>
  /\ frame = <<>> /\ retries = 0 /\ tx_time = <<0, 0>> /\ polls = 0
  /\ calls = 0 /\ t_entry = <<0, 0>> /\ seq_entry = 0 /\ tx_log = <<>> /\ rx_seen = FALSE
  /\ replies = 0 /\ hf_frame = <<>> /\ hf_ret = FALSE /\ hf_count = 0 /\ hf_read = 0
  /\ rf_last = NoVerdict /\ stream = <<>> /\ sc_result = "none"
  /\ millis = ClockStart
  /\ InitDriver(PlainConfig, PlainBuild)
  /\ pin_boot0 = FALSE /\ parity = "none"

InitProto ==
  /\ InitCommon
  /\ seq_ = SeqStart
  /\ pc = <<"harness">>

NextProto == HarnessSend \/ SendCommandStep

SpecProto == InitProto /\ [][NextProto]_vars

\* ------------------------------------------------------------ framing harness
\* read_frame_ run byte by byte on a stream: one iteration of while (available()).
\* After a complete frame read_frame_ returns true and is called again.
RfByte ==
  /\ Head(pc) = "read_frame"
  /\ rx # <<>>
  /\ \E st \in {read_byte_(buffer_, buffer_pos_, Head(rx))} :
       /\ rx' = Tail(rx)
       /\ buffer_' = st.buf
       /\ buffer_pos_' = st.pos
       /\ rf_last' = [c |-> Head(rx), pos |-> buffer_pos_, r |-> st.r,
                      buf |-> st.frame, n |-> rf_last.n + 1]
       /\ IF st.r = 0 THEN Dispatch(st.frame) ELSE NoDispatch
  /\ UNCHANGED <<seq_, wire, scVars, calls, t_entry, seq_entry, tx_log, rx_seen,
                 replies, stream, sc_result, pc>>
  /\ UNCHANGED drvVars

SHELLY_DIMMER_PROTO_MAX_FRAME_SIZE == 79
MaxPayloadLen == SHELLY_DIMMER_PROTO_MAX_FRAME_SIZE - 7

\* payloads of n bytes: all zero, all 0xFF, and a ramp
Payloads(n) ==
  { [i \in 1..n |-> 0], [i \in 1..n |-> 255], [i \in 1..n |-> U8(3 + 7 * i)] }

FrameCmds == { SHELLY_DIMMER_PROTO_CMD_SWITCH, SHELLY_DIMMER_PROTO_CMD_POLL,
               SHELLY_DIMMER_PROTO_CMD_VERSION, SHELLY_DIMMER_PROTO_CMD_SETTINGS, 127 }

\* A frame of the line damaged in one place, or preceded by a damaged start.
Damaged(f) ==
  LET n == Len(f) IN
  { WithByte(f, 1, 2),
    WithByte(f, n - 1, U8(f[n - 1] + 1)),
    WithByte(f, n - 2, U8(f[n - 2] + 1)),
    WithByte(f, n, 5),
    WithByte(f, 2, U8(f[2] + 1)),
    <<0>> \o f,
    <<1, f[2], f[3], 250, 9>> \o f,
    <<1, f[2], f[3], 255, 9>> \o f,
    SubSeq(f, 1, n - 1) \o f,
    SubSeq(f, 1, 2) \o f }

DamagedLens == {0, 1, 2, 17}

\* the state after construction, but for what the framing harness chooses
InitRest ==
  /\ buffer_ = <<>> /\ buffer_pos_ = 0
  /\ version_major_ = 0 /\ version_minor_ = 0
  /\ sensors = [has_state |-> FALSE, power |-> 0, voltage |-> 0, current |-> 0]
  /\ wire = <<>>
  /\ retries = 0 /\ tx_time = <<0, 0>> /\ polls = 0
  /\ calls = 0 /\ t_entry = <<0, 0>> /\ tx_log = <<>> /\ rx_seen = FALSE
  /\ replies = 0 /\ hf_frame = <<>> /\ hf_ret = FALSE /\ hf_count = 0 /\ hf_read = 0
  /\ rf_last = NoVerdict /\ sc_result = "none"
  /\ millis = ClockStart
  /\ InitDriver(PlainConfig, PlainBuild)
  /\ pin_boot0 = FALSE /\ parity = "none"

InitFrame ==
  /\ InitRest
  /\ pc = <<"read_frame">>
  /\ seq_entry \in {0, 255, 199}
  /\ seq_ = NextSeq(seq_entry)
  /\ \E cmd \in FrameCmds, n \in 0..MaxPayloadLen :
     \E payload \in Payloads(n) :
       /\ arg_cmd = cmd
       /\ arg_payload = payload
       /\ frame = frame_command_(seq_entry, cmd, payload)
  /\ stream \in {frame} \cup (IF Len(arg_payload) \in DamagedLens /\ seq_ = 1
                              THEN Damaged(frame) ELSE {})
  /\ rx = stream

SpecFrame == InitFrame /\ [][RfByte]_vars

\* ------------------------------------------------------------ the driver
\* One entry of the log: what was done, and up to three numbers about it.
Ev(e, x, y, z) == [ev |-> e, a |-> x, b |-> y, c |-> z]
Logged(e) == log' = Append(log, e)
B2N(b) == IF b THEN 1 ELSE 0

\* writes of the image the model counts before it stops (upgrade_firmware_)
MaxWrites == 2

\* write_state calls the model makes
MaxStateWrites == 2

\* the brightness values the light is given (0, 1/2, 1)
Levels == {0, One \div 2, One}

\* what rtc_.load() can find: nothing, or a table complete_calibration saved
StepTable == [i \in 1..20 |-> IF i = 20 THEN 0 ELSE One - (i - 1) * CALIBRATION_STEP]
StoredTables == {StepTable}

\* stm32->dev->fl_start
FlashStart == 134217728

\* upgrade_firmware_: static constexpr uint32_t BUFFER_SIZE = 256
BUFFER_SIZE == 256

Configs ==
  { PlainConfig,
    [min_brightness |-> 100, max_brightness |-> 900, leading_edge |-> TRUE,
     fade_rate |-> 300, warmup_brightness |-> 300, warmup_time |-> 20] }

Builds ==
  { [use_esp_idf |-> i, shd_firmware_data |-> FALSE, fw_size |-> 0] : i \in BOOLEAN }
  \cup { [use_esp_idf |-> i, shd_firmware_data |-> TRUE, fw_size |-> n] :
           i \in BOOLEAN, n \in {1, BUFFER_SIZE * (MaxWrites - 1) + 44} }

\* the configurations, builds and UART settings the driver is started with
Starts ==
  { st \in Configs \X Builds \X {"none", "even"} :
      /\ st[1] # PlainConfig => (~st[2].use_esp_idf /\ ~st[2].shd_firmware_data)
      /\ st[2].use_esp_idf => (st[2].fw_size = 1)
      /\ st[3] = "even" => st[2].use_esp_idf }

Min(a, b) == IF a < b THEN a ELSE b

\* a slip: the stored version is never taken to be the configured one
never_configured_version(major, minor) == FALSE

is_running_configured_version(major, minor) ==
  major = USE_SHD_FIRMWARE_MAJOR_VERSION /\ minor = USE_SHD_FIRMWARE_MINOR_VERSION

\* remap<uint16_t, float>(brightness, 0.0f, 1.0f, min_brightness_, max_brightness_)
convert_brightness_(brightness) ==
  IF brightness = 0 THEN 0
  ELSE U16((brightness * (cfg.max_brightness - cfg.min_brightness)) \div One + cfg.min_brightness)

\* a slip: the search stops at an entry equal to the brightness, too
CalibrationPos_nonstrict(table, brightness) ==
  IF \E i \in 1..20 : table[i] # NaN /\ table[i] <= brightness
  THEN (CHOOSE i \in 1..20 : /\ table[i] # NaN /\ table[i] <= brightness
                             /\ \A j \in 1..(i - 1) : table[j] = NaN \/ table[j] > brightness) - 1
  ELSE 20

\* the first pos with calibration_data_[pos] < brightness (20: none)
CalibrationPos(table, brightness) ==
  IF \E i \in 1..20 : FLess(table[i], brightness)
  THEN (CHOOSE i \in 1..20 : /\ FLess(table[i], brightness)
                             /\ \A j \in 1..(i - 1) : ~FLess(table[j], brightness)) - 1
  ELSE 20

\* a slip: the table is used while a calibration runs, too
Remapped_while_calibrating(table, cal, brightness) ==
  IF table[1] # 0 /\ brightness # 0 /\ brightness # One
  THEN LET pos == CalibrationPos(table, brightness) IN
       IF pos = 20 \/ pos = 0 THEN brightness
       ELSE ((brightness - table[pos + 1]) * CALIBRATION_STEP) \div (table[pos] - table[pos + 1])
            + One - pos * CALIBRATION_STEP
  ELSE brightness

\* write_state, lines 169-194: the brightness after the calibration table
Remapped(table, cal, brightness) ==
  IF ~cal /\ table[1] # 0 /\ brightness # 0 /\ brightness # One
  THEN LET pos == CalibrationPos(table, brightness) IN
       IF pos = 20 \/ pos = 0 THEN brightness
       ELSE LET min     == table[pos + 1]
                max     == table[pos]
                min_out == One - pos * CALIBRATION_STEP
                max_out == min_out + CALIBRATION_STEP
            IN  ((brightness - min) * (max_out - min_out)) \div (max - min) + min_out
  ELSE brightness

\* a slip: write_state without the ready_ check
write_state_sends_unready(ready, brightness_int, sent) == brightness_int # sent

\* write_state goes on to send_brightness_
write_state_sends(ready, brightness_int, sent) == ready /\ brightness_int # sent

\* send_settings_: the payload
SettingsPayload(brightness_int) ==
  LET fade_rate == Min(100, cfg.fade_rate) IN
  << brightness_int % 256, brightness_int \div 256,
     IF cfg.leading_edge THEN 1 ELSE 2, 0,
     fade_rate % 256, fade_rate \div 256,
     cfg.warmup_brightness % 256, cfg.warmup_brightness \div 256,
     cfg.warmup_time % 256, cfg.warmup_time \div 256 >>

\* a driver step that neither sends nor receives
Quiet == UNCHANGED <<objVars, uartVars, scVars, histVars>>

\* the step the caller takes when send_command_ has returned: the call's locals
\* and what was recorded about the call are gone
Returned ==
  /\ arg_cmd' = 0 /\ arg_payload' = <<>>
  /\ frame' = <<>> /\ retries' = 0 /\ tx_time' = <<0, 0>> /\ polls' = 0
  /\ millis' = ClockStart /\ t_entry' = <<0, 0>>
  /\ tx_log' = <<>> /\ rx_seen' = FALSE /\ replies' = 0
  /\ hf_frame' = <<>> /\ hf_ret' = FALSE /\ hf_count' = 0 /\ hf_read' = 0
  /\ sc_result' = "none"
  /\ UNCHANGED <<objVars, uartVars, calls, seq_entry, rf_last, stream>>

\* setup, lines 104-109: the pins, then handle_firmware()
Setup ==
  /\ pc = <<"boot">>
  /\ pc' = <<"hf_0", "setup_1">>
  /\ Quiet /\ UNCHANGED drvVars

\* handle_firmware, line 77: reset_normal_boot_()
Hf0 ==
  /\ Head(pc) = "hf_0"
  /\ pc' = <<"rnb", "hf_1">> \o Tail(pc)
  /\ Quiet /\ UNCHANGED drvVars

\* reset_normal_boot_: the UART to 8N1 (not under USE_ESP_IDF), flush, reset_(false)
ResetNormalBoot ==
  /\ Head(pc) = "rnb"
  /\ parity' = IF build.use_esp_idf THEN parity ELSE "none"
  /\ arg_boot0' = FALSE
  /\ Logged(Ev("enter_app", 0, 0, 0))
  /\ pc' = <<"rs_boot0">> \o Tail(pc)
  /\ Quiet
  /\ UNCHANGED <<lightVars, cfgVars, calVars, pin_boot0, pin_nrst, dev_mode, boot0_at_rise, rx_at_rise,
                 fwVars, arg_brightness, wsVars>>

\* reset_dfu_boot_: the UART to 8E1 (not under USE_ESP_IDF), flush, reset_(true)
ResetDfuBoot ==
  /\ Head(pc) = "rdb"
  /\ parity' = IF build.use_esp_idf THEN parity ELSE "even"
  /\ arg_boot0' = TRUE
  /\ Logged(Ev("enter_dfu", 0, 0, 0))
  /\ pc' = <<"rs_boot0">> \o Tail(pc)
  /\ Quiet
  /\ UNCHANGED <<lightVars, cfgVars, calVars, pin_boot0, pin_nrst, dev_mode, boot0_at_rise, rx_at_rise,
                 fwVars, arg_brightness, wsVars>>

\* reset_: pin_boot0_->digital_write(boot0)
RsBoot0 ==
  /\ Head(pc) = "rs_boot0"
  /\ pin_boot0' = arg_boot0
  /\ pc' = <<"rs_nrst_low">> \o Tail(pc)
  /\ Quiet
  /\ UNCHANGED <<lightVars, cfgVars, calVars, pin_nrst, parity, dev_mode, boot0_at_rise, rx_at_rise,
                 fwVars, callVars, wsVars, log>>

\* reset_: pin_nrst_->digital_write(false); the dimmer MCU is held in reset
\* (going down it may leave a stray byte on the line)
RsNrstLow ==
  /\ Head(pc) = "rs_nrst_low"
  /\ pin_nrst' = FALSE
  /\ dev_mode' = "held"
  /\ wire' \in {wire, wire \o <<0>>}
  /\ pc' = <<"rs_delay1">> \o Tail(pc)
  /\ UNCHANGED <<objVars, rx, scVars, histVars>>
  /\ UNCHANGED <<lightVars, cfgVars, calVars, pin_boot0, parity, boot0_at_rise, rx_at_rise,
                 fwVars, callVars, wsVars, log>>

\* reset_: delay(50); what was still on the line arrives
RsDelay1 ==
  /\ Head(pc) = "rs_delay1"
  /\ rx' = rx \o wire
  /\ wire' = <<>>
  /\ pc' = <<"rs_drain">> \o Tail(pc)
  /\ UNCHANGED <<objVars, scVars, histVars, drvVars>>

\* reset_: while (available()) read();
RsDrain ==
  /\ Head(pc) = "rs_drain"
  /\ rx' = <<>>
  /\ pc' = <<"rs_nrst_high">> \o Tail(pc)
  /\ UNCHANGED <<objVars, wire, scVars, histVars, drvVars>>

\* reset_: pin_nrst_->digital_write(true); the dimmer MCU starts as BOOT0 says
RsNrstHigh ==
  /\ Head(pc) = "rs_nrst_high"
  /\ pin_nrst' = TRUE
  /\ boot0_at_rise' = pin_boot0
  /\ rx_at_rise' = rx
  /\ dev_mode' = IF pin_boot0 THEN "dfu" ELSE "app"
  /\ pc' = <<"rs_delay2">> \o Tail(pc)
  /\ Quiet
  /\ UNCHANGED <<lightVars, cfgVars, calVars, pin_boot0, parity, fwVars, callVars, wsVars, log>>

\* reset_: delay(50); return
RsDelay2 ==
  /\ Head(pc) = "rs_delay2"
  /\ pc' = Tail(pc)
  /\ Quiet /\ UNCHANGED drvVars

\* the brightness a SWITCH or SETTINGS payload carries (low byte first)
Carried(payload) == IF Len(payload) >= 2 THEN payload[1] + 256 * payload[2] ELSE 0

\* a send_command_ call of the driver: the call is logged with the brightness it
\* carries, and control comes back at the program point next
DriverSend(cmd, payload, next) ==
  /\ send_command_enter(cmd, payload, ClockStart)
  /\ Logged(Ev("cmd", cmd, Carried(payload), 0))
  /\ pc' = <<"sc_loop", next>> \o Tail(pc)

\* handle_firmware, line 78: send_command_(VERSION)
Hf1 ==
  /\ Head(pc) = "hf_1"
  /\ DriverSend(SHELLY_DIMMER_PROTO_CMD_VERSION, <<>>, "hf_2")
  /\ UNCHANGED <<lightVars, cfgVars, calVars, pinVars, fwVars, callVars, wsVars>>

\* handle_firmware, lines 82-84 and 97-100: the version check; upgrade_firmware_()
\* begins with reset_dfu_boot_()
Hf2 ==
  /\ Head(pc) = "hf_2"
  /\ IF is_running_configured_version(version_major_, version_minor_)
          \/ ~build.shd_firmware_data
     THEN /\ pc' = Tail(pc)
          /\ UNCHANGED log
     ELSE /\ pc' = <<"rdb", "up_init", "hf_3">> \o Tail(pc)
          /\ Logged(Ev("upgrade", version_major_, version_minor_, 0))
  /\ Returned
  /\ UNCHANGED <<lightVars, cfgVars, calVars, pinVars, fwVars, callVars, wsVars>>

\* upgrade_firmware_, lines 210-215: stm32_init
UpInit ==
  /\ Head(pc) = "up_init"
  /\ \E ok \in BOOLEAN :
       /\ Logged(Ev("init", 0, 0, B2N(ok)))
       /\ IF ok THEN pc' = <<"up_erase">> \o Tail(pc) /\ UNCHANGED up_result
          ELSE pc' = Tail(pc) /\ up_result' = FALSE
  /\ Quiet
  /\ UNCHANGED <<lightVars, cfgVars, calVars, pinVars, addr, offset, src_read_end, callVars, wsVars>>

\* upgrade_firmware_, lines 218-231: stm32_erase_memory; the loop variables
UpErase ==
  /\ Head(pc) = "up_erase"
  /\ \E ok \in BOOLEAN :
       /\ Logged(Ev("erase", 0, 0, B2N(ok)))
       /\ IF ok THEN /\ pc' = <<"up_write">> \o Tail(pc)
                     /\ addr' = FlashStart
                     /\ offset' = 0
                     /\ UNCHANGED up_result
          ELSE /\ pc' = Tail(pc)
               /\ up_result' = FALSE
               /\ UNCHANGED <<addr, offset>>
  /\ Quiet
  /\ UNCHANGED <<lightVars, cfgVars, calVars, pinVars, src_read_end, callVars, wsVars>>

\* upgrade_firmware_, lines 233-255: one turn of the write loop, or its end
UpWrite ==
  /\ Head(pc) = "up_write"
  /\ LET size == build.fw_size
         end  == FlashStart + size
         left_of_buffer == Min(end - addr, BUFFER_SIZE)
         len  == Min(left_of_buffer, size - offset)
     IN  IF addr < end /\ offset < size /\ len # 0
         THEN /\ src_read_end' = offset + BUFFER_SIZE
              /\ \E ok \in BOOLEAN :
                   /\ Logged(Ev("write", offset, len, B2N(ok)))
                   /\ IF ok THEN /\ addr' = addr + len
                                 /\ offset' = offset + len
                                 /\ UNCHANGED <<pc, up_result>>
                      ELSE /\ pc' = Tail(pc)
                           /\ up_result' = FALSE
                           /\ UNCHANGED <<addr, offset>>
         ELSE /\ pc' = Tail(pc)
              /\ up_result' = TRUE
              /\ UNCHANGED <<addr, offset, src_read_end, log>>
  /\ Quiet
  /\ UNCHANGED <<lightVars, cfgVars, calVars, pinVars, callVars, wsVars>>

\* handle_firmware, lines 84-90: upgrade_firmware_ has returned
Hf3 ==
  /\ Head(pc) = "hf_3"
  /\ IF ~up_result
     THEN /\ failed' = TRUE
          /\ Logged(Ev("mark_failed", 0, 0, 0))
          /\ pc' = Tail(pc)
     ELSE /\ pc' = <<"rnb", "hf_4">> \o Tail(pc)
          /\ UNCHANGED <<failed, log>>
  /\ Quiet
  /\ UNCHANGED <<ready_, brightness_, calibration_data_, calibrating_, cfgVars, calVars, pinVars,
                 fwVars, callVars, wsVars>>

\* handle_firmware, line 91: send_command_(VERSION)
Hf4 ==
  /\ Head(pc) = "hf_4"
  /\ DriverSend(SHELLY_DIMMER_PROTO_CMD_VERSION, <<>>, "hf_5")
  /\ UNCHANGED <<lightVars, cfgVars, calVars, pinVars, fwVars, callVars, wsVars>>

\* handle_firmware, lines 92-96: the version after the upgrade
Hf5 ==
  /\ Head(pc) = "hf_5"
  /\ IF ~is_running_configured_version(version_major_, version_minor_)
     THEN /\ failed' = TRUE
          /\ Logged(Ev("mark_failed", 0, 0, 0))
     ELSE UNCHANGED <<failed, log>>
  /\ pc' = Tail(pc)
  /\ Returned
  /\ UNCHANGED <<ready_, brightness_, calibration_data_, calibrating_, cfgVars, calVars, pinVars,
                 fwVars, callVars, wsVars>>

\* setup, line 111: send_settings_()
Setup1 ==
  /\ Head(pc) = "setup_1"
  /\ pc' = <<"ss_0", "setup_2">>
  /\ Quiet /\ UNCHANGED drvVars

\* send_settings_, lines 282-310: the light's brightness, the payload, SETTINGS
SendSettings ==
  /\ Head(pc) = "ss_0"
  /\ \E brightness \in Levels :
       \E brightness_int \in {convert_brightness_(brightness)} :
         /\ DriverSend(SHELLY_DIMMER_PROTO_CMD_SETTINGS, SettingsPayload(brightness_int),
                       "ss_1")
         /\ arg_brightness' = brightness_int
  /\ UNCHANGED <<lightVars, cfgVars, calVars, pinVars, fwVars, arg_boot0, wsVars>>

\* send_settings_, line 313: send_brightness_(brightness_int)
SendSettings1 ==
  /\ Head(pc) = "ss_1"
  /\ pc' = <<"sb_0">> \o Tail(pc)
  /\ Returned /\ UNCHANGED drvVars

\* send_brightness_, lines 269-276: SWITCH with the brightness, low byte first
SendBrightness ==
  /\ Head(pc) = "sb_0"
  /\ DriverSend(SHELLY_DIMMER_PROTO_CMD_SWITCH,
                <<arg_brightness % 256, arg_brightness \div 256>>, "sb_1")
  /\ UNCHANGED <<lightVars, cfgVars, calVars, pinVars, fwVars, callVars, wsVars>>

\* send_brightness_, line 278: this->brightness_ = brightness
SendBrightness1 ==
  /\ Head(pc) = "sb_1"
  /\ brightness_' = arg_brightness
  /\ pc' = Tail(pc)
  /\ Returned
  /\ UNCHANGED <<ready_, failed, calibration_data_, calibrating_, cfgVars, calVars, pinVars,
                 fwVars, callVars, wsVars, log>>

\* setup, line 113: send_command_(POLL)
Setup2 ==
  /\ Head(pc) = "setup_2"
  /\ DriverSend(SHELLY_DIMMER_PROTO_CMD_POLL, <<>>, "setup_3")
  /\ UNCHANGED <<lightVars, cfgVars, calVars, pinVars, fwVars, callVars, wsVars>>

\* setup, lines 115-125: the calibration table is zeroed and loaded; ready_
Setup3 ==
  /\ Head(pc) = "setup_3"
  /\ \E t \in {NoTable} \cup StoredTables :
       /\ calibration_data_' = t
       /\ log' = log \o << Ev("load", B2N(t # NoTable), 0, 0), Ev("ready", 0, 0, 0) >>
  /\ ready_' = TRUE
  /\ pc' = <<"idle">>
  /\ Returned
  /\ UNCHANGED <<failed, brightness_, calibrating_, cfgVars, calVars, pinVars, fwVars, callVars, wsVars>>

\* write_state(state): called by the light, before setup or after it
WriteState ==
  /\ pc \in {<<"boot">>, <<"idle">>}
  /\ ws_calls < MaxStateWrites
  /\ ws_calls' = ws_calls + 1
  /\ ws_unready' = IF ready_ THEN ws_unready ELSE ws_unready + 1
  /\ \E brightness \in Levels :
       \E brightness_int \in
            {convert_brightness_(Remapped(calibration_data_, calibrating_, brightness))} :
         IF write_state_sends(ready_, brightness_int, brightness_)
         THEN /\ arg_brightness' = brightness_int
              /\ pc' = <<"sb_0">> \o pc
         ELSE UNCHANGED <<arg_brightness, pc>>
  /\ Quiet
  /\ UNCHANGED <<lightVars, cfgVars, calVars, pinVars, fwVars, arg_boot0, log>>

DriverStep ==
  \/ Setup \/ Hf0 \/ ResetNormalBoot \/ ResetDfuBoot
  \/ RsBoot0 \/ RsNrstLow \/ RsDelay1 \/ RsDrain \/ RsNrstHigh \/ RsDelay2
  \/ Hf1 \/ Hf2 \/ UpInit \/ UpErase \/ UpWrite \/ Hf3 \/ Hf4 \/ Hf5
  \/ Setup1 \/ SendSettings \/ SendSettings1 \/ SendBrightness \/ SendBrightness1
  \/ Setup2 \/ Setup3 \/ WriteState

Init ==
  /\ seq_ = 0 /\ buffer_ = <<>> /\ buffer_pos_ = 0
  /\ version_major_ = 0 /\ version_minor_ = 0
  /\ sensors = [has_state |-> FALSE, power |-> 0, voltage |-> 0, current |-> 0]
  /\ rx = <<>> /\ wire = <<>>
  /\ arg_cmd = 0 /\ arg_payload = <<>>
  /\ frame = <<>> /\ retries = 0 /\ tx_time = <<0, 0>> /\ polls = 0
  /\ calls = 0 /\ t_entry = <<0, 0>> /\ seq_entry = 0 /\ tx_log = <<>> /\ rx_seen = FALSE
  /\ replies = 0 /\ hf_frame = <<>> /\ hf_ret = FALSE /\ hf_count = 0 /\ hf_read = 0
  /\ rf_last = NoVerdict /\ stream = <<>> /\ sc_result = "none"
  /\ millis = ClockStart
  /\ \E st \in Starts : InitDriver(st[1], st[2]) /\ parity = st[3]
  /\ pin_boot0 \in BOOLEAN
  /\ pc = <<"boot">>

Next == DriverStep \/ SendCommandStep

Spec == Init /\ [][Next]_vars

\* ------------------------------------------------------------ calibration
\* remap(value, min, max, min_out, max_out) on floats:
\* (value - min) * (max_out - min_out) / (max - min) + min_out.  Where it is
\* called with max = min, value is min too, and the quotient is 0 / 0.
remap(value, min, max, min_out, max_out) ==
  IF max = min THEN NaN
  ELSE ((value - min) * (max_out - min_out)) \div (max - min) + min_out

\* the length of calibration_measurements_ (shelly_dimmer.h; equal to the length
\* of the table)
MeasurementsSize == 20

\* start_calibration: calibration_step_ = -20
WarmupStart == 0 - 20

\* the interval start_calibration arms the poller with, and the interval
\* complete_calibration_ restores when none was saved, ms
CalibrationInterval == 1000
FallbackInterval == 10000

RECURSIVE SumFloats(_)
SumFloats(s) == IF s = <<>> THEN 0 ELSE Head(s) + SumFloats(Tail(s))

\* std::sort(begin, end, std::greater{}): the entries in descending order
SortedDescending(t) ==
  [k \in 1..Len(t) |->
     CHOOSE v \in {t[i] : i \in 1..Len(t)} :
       /\ Cardinality({i \in 1..Len(t) : t[i] > v}) < k
       /\ k <= Cardinality({i \in 1..Len(t) : t[i] >= v})]

\* The calibration state as one record, and the record written back.
Cal ==
  [step |-> calibration_step_, cnt |-> calibration_measurement_cnt_,
   meas |-> calibration_measurements_, table |-> calibration_data_,
   calibrating |-> calibrating_, light |-> light,
   interval |-> update_interval, original |-> update_interval_original_,
   saved |-> saved]
SetCal(c) ==
  /\ calibration_step_' = c.step
  /\ calibration_measurement_cnt_' = c.cnt
  /\ calibration_measurements_' = c.meas
  /\ calibration_data_' = c.table
  /\ calibrating_' = c.calibrating
  /\ light' = c.light
  /\ update_interval' = c.interval
  /\ update_interval_original_' = c.original
  /\ saved' = c.saved

\* set_brightness_no_transition_: the light takes the brightness at once
set_brightness_no_transition_(c, brightness) == [c EXCEPT !.light = brightness]

\* save_calibration_: rtc_.save(&calibration_data_)
save_calibration_(c) == [c EXCEPT !.saved = c.table]

\* complete_calibration_
complete_calibration_(c) ==
  CHOOSE res \in
    { [c3 EXCEPT !.interval = IF c3.original = 0 THEN FallbackInterval ELSE c3.original] :
      c3 \in { set_brightness_no_transition_(
                  save_calibration_(
                    [c EXCEPT !.calibrating = FALSE,
                              !.table = [i \in 1..Len(sorted) |->
                                           remap(sorted[i], sorted[Len(sorted)], sorted[1],
                                                 0, One)]]),
                  One) :
               sorted \in {SortedDescending(c.table)} } } : TRUE

\* complete_calibration_step_: the mean of the measurements goes into the table;
\* the last step finishes the calibration, any other lowers the brightness
complete_calibration_step_(c) ==
  CHOOSE res \in
    { IF c1.step >= Len(c1.table) THEN complete_calibration_(c1)
      ELSE set_brightness_no_transition_(c1, c1.light - CALIBRATION_STEP) :
      c1 \in { [c EXCEPT !.table[c.step + 1] = result, !.step = c.step + 1,
                         !.cnt = 0, !.meas = [i \in 1..MeasurementsSize |-> 0]] :
               result \in {SumFloats(c.meas) \div MeasurementsSize} } } : TRUE

\* a slip: a reading is recorded during the warmup, too
perform_calibration_measurement_unwarmed(c, sensor) ==
  IF ~sensor.has_state THEN c
  ELSE CHOOSE res \in
         { IF c1.cnt >= MeasurementsSize THEN complete_calibration_step_(c1) ELSE c1 :
           c1 \in {[c EXCEPT !.meas[c.cnt + 1] = sensor.power, !.cnt = c.cnt + 1]} } : TRUE

\* perform_calibration_measurement_, with what the power sensor holds
perform_calibration_measurement_(c, sensor) ==
  IF ~sensor.has_state THEN c
  ELSE IF c.step < 0 THEN [c EXCEPT !.step = c.step + 1]
  ELSE CHOOSE res \in
         { IF c1.cnt >= MeasurementsSize THEN complete_calibration_step_(c1) ELSE c1 :
           c1 \in {[c EXCEPT !.meas[c.cnt + 1] = sensor.power, !.cnt = c.cnt + 1]} } : TRUE

\* start_calibration
start_calibration(c) ==
  LET c1 == [c EXCEPT !.original = c.interval, !.interval = CalibrationInterval]
      c2 == set_brightness_no_transition_(c1, One)
  IN  [c2 EXCEPT !.table = NoTable, !.meas = [i \in 1..MeasurementsSize |-> 0],
                 !.cnt = 0, !.step = WarmupStart, !.calibrating = TRUE]

\* clear_calibration
clear_calibration(c) == save_calibration_([c EXCEPT !.table = NoTable])

\* send_command_(cmd, payload) from its call to its return, when the dimmer MCU
\* puts reply on the line at the first write (<<>>: it stays silent) and nothing
\* else arrives: a complete frame is dispatched and the call returns true at
\* once; otherwise the three windows pass and it returns false.
send_command_(buf, pos, fifo, seq, cmd, payload, reply) ==
  CHOOSE res \in
    { IF rf.done
      THEN [ret |-> TRUE, seq |-> NextSeq(seq), buf |-> rf.buf, pos |-> rf.pos, rx |-> rf.rx,
            frame |-> rf.frame, hf |-> handle_frame_(rf.frame, NextSeq(seq)), hf_count |-> 1]
      ELSE [ret |-> FALSE, seq |-> NextSeq(seq), buf |-> rf.buf, pos |-> rf.pos, rx |-> rf.rx,
            frame |-> <<>>, hf |-> [ret |-> FALSE, eff |-> NoEffect, read |-> 0],
            hf_count |-> 0] :
      rf \in {read_frame_(buf, pos, fifo \o reply)} } : TRUE

\* ------------------------------------------------------------ the load
\* a uint32_t below 2^24 as the dimmer MCU sends it, low byte first
LE32(n) == <<n % 256, (n \div 256) % 256, n \div 65536, 0>>

\* power_raw the dimmer MCU reports with a load l at brightness b: no load draws
\* nothing (raw 0), a dimmable lamp draws the more the brighter it is
LampRaw(l, b) == IF l = "none" THEN 0 ELSE 2 * One - b

\* the payload of the dimmer MCU's response to POLL (17 bytes)
LampPoll(l, b) ==
  <<1, 0, b % 256, b \div 256>> \o LE32(LampRaw(l, b)) \o LE32(1500) \o LE32(400) \o <<0>>

\* ------------------------------------------------------------ calibration runs
\* start_calibration calls in a run
MaxStarts == 2
\* a start_calibration while a calibration runs comes within this many steps
\* of the warmup
MaxRestartTick == 2

\* What perform_calibration_measurement_ gets from power_sensor_->has_state() and
\* power_sensor_->state when no power sensor is configured (power_sensor_ is
\* nullptr, the behaviour is undefined): the load from address 0 traps and the
\* driver stops ("crash"), or it yields whatever lies there: a false has_state
\* ("no_state") or a true one and some value ("state").
NullReads == {"crash", "no_state", "state"}
GarbagePower == 7
NullRead(outcome) ==
  [has_state |-> outcome = "state", power |-> GarbagePower, voltage |-> 0, current |-> 0]

\* What a run is made against: the load, whether a power sensor is configured
\* (and what a read through nullptr does if not), whether setup's POLL was
\* answered, the configured update interval, and how many POLLs the dimmer MCU
\* leaves unanswered, how many start_calibration and clear_calibration calls
\* come, and how many ticks come while no calibration runs.
CalScenarios ==
  { [lamp |-> "dimmable", sensor |-> TRUE, null |-> "none", has_state |-> TRUE,
     interval |-> 60000, lose |-> 1, start |-> 1, clear |-> 0, tick |-> 0],
    [lamp |-> "dimmable", sensor |-> TRUE, null |-> "none", has_state |-> FALSE,
     interval |-> 0, lose |-> 1, start |-> 1, clear |-> 0, tick |-> 0],
    [lamp |-> "none", sensor |-> TRUE, null |-> "none", has_state |-> TRUE,
     interval |-> 60000, lose |-> 0, start |-> 1, clear |-> 1, tick |-> 1],
    [lamp |-> "dimmable", sensor |-> TRUE, null |-> "none", has_state |-> TRUE,
     interval |-> 0, lose |-> 0, start |-> MaxStarts, clear |-> 0, tick |-> 0] }
  \cup
  { [lamp |-> "dimmable", sensor |-> FALSE, null |-> n, has_state |-> FALSE,
     interval |-> 60000, lose |-> 0, start |-> 1, clear |-> 0, tick |-> 0] :
    n \in NullReads }

\* The driver after setup, but for what a run chooses.
AfterSetup ==
  /\ buffer_ = <<>> /\ buffer_pos_ = 0
  /\ version_major_ = USE_SHD_FIRMWARE_MAJOR_VERSION
  /\ version_minor_ = USE_SHD_FIRMWARE_MINOR_VERSION
  /\ rx = <<>> /\ wire = <<>>
  /\ arg_cmd = 0 /\ arg_payload = <<>>
  /\ frame = <<>> /\ retries = 0 /\ tx_time = <<0, 0>> /\ polls = 0
  /\ calls = 0 /\ t_entry = <<0, 0>> /\ seq_entry = 0 /\ tx_log = <<>> /\ rx_seen = FALSE
  /\ replies = 0 /\ hf_frame = <<>> /\ hf_ret = FALSE /\ hf_count = 0 /\ hf_read = 0
  /\ rf_last = NoVerdict /\ stream = <<>> /\ sc_result = "none"
  /\ millis = ClockStart
  /\ ready_ = TRUE /\ failed = FALSE
  /\ build = PlainBuild
  /\ pin_boot0 = FALSE /\ pin_nrst = TRUE /\ parity = "none" /\ dev_mode = "app"
  /\ boot0_at_rise = FALSE /\ rx_at_rise = <<>>
  /\ up_result = FALSE /\ addr = 0 /\ offset = 0 /\ src_read_end = 0
  /\ arg_boot0 = FALSE /\ arg_brightness = 0
  /\ ws_calls = 0 /\ ws_unready = 0 /\ log = <<>>

\* no calibration was started since construction
NeverCalibrated ==
  /\ calibrating_ = FALSE
  /\ calibration_step_ = 0 /\ calibration_measurement_cnt_ = 0
  /\ calibration_measurements_ = [i \in 1..MeasurementsSize |-> 0]
  /\ update_interval_original_ = 0
  /\ saved = <<>>

\* setup has sent VERSION, SETTINGS, SWITCH and POLL
SeqAfterSetup == 4

InitCal ==
  /\ AfterSetup
  /\ NeverCalibrated
  /\ seq_ = SeqAfterSetup
  /\ pc = <<"idle">>
  /\ cfg = PlainConfig
  /\ scen \in CalScenarios
  /\ sensors = [has_state |-> scen.has_state,
                power |-> IF scen.has_state
                          THEN Scaled(POWER_SCALING_FACTOR, U32Of(LampRaw(scen.lamp, One \div 2)))
                          ELSE 0,
                voltage |-> 0, current |-> 0]
  /\ calibration_data_ = IF scen.lamp = "none" THEN StepTable ELSE NoTable
  /\ light = One \div 2
  /\ brightness_ = One \div 2
  /\ update_interval = scen.interval
  /\ may_lose = scen.lose /\ may_start = scen.start
  /\ may_clear = scen.clear /\ may_tick = scen.tick

\* what a calibration step leaves alone
CalQuiet ==
  UNCHANGED <<version_major_, version_minor_, wire, scVars, calls, t_entry, seq_entry,
              tx_log, rx_seen, replies, rf_last, stream, ready_, failed, brightness_,
              cfgVars, scen, pinVars, fwVars, callVars, wsVars, log>>

\* start_calibration(), called between two ticks
StartCalibration ==
  /\ pc = <<"idle">>
  /\ may_start > 0
  /\ calibrating_ => calibration_step_ < WarmupStart + MaxRestartTick
  /\ may_start' = may_start - 1
  /\ \E c \in {start_calibration(Cal)} : SetCal(c)
  /\ CalQuiet
  /\ UNCHANGED <<seq_, buffer_, buffer_pos_, sensors, rx, hf_frame, hf_ret, hf_count, hf_read,
                 sc_result, may_lose, may_clear, may_tick, pc>>

\* clear_calibration(), called between two ticks
ClearCalibration ==
  /\ pc = <<"idle">>
  /\ may_clear > 0
  /\ may_clear' = may_clear - 1
  /\ \E c \in {clear_calibration(Cal)} : SetCal(c)
  /\ CalQuiet
  /\ UNCHANGED <<seq_, buffer_, buffer_pos_, sensors, rx, hf_frame, hf_ret, hf_count, hf_read,
                 sc_result, may_lose, may_start, may_tick, pc>>

\* update(), the periodic tick: send_command_(POLL), which the dimmer MCU answers
\* or not (a decoded POLL is published to the power sensor if there is one);
\* then, if calibrating_, perform_calibration_measurement_(), which reads the
\* power sensor, through nullptr if there is none
UpdateWith(answered) ==
  /\ pc = <<"idle">>
  /\ calibrating_ \/ may_tick > 0
  /\ answered \/ may_lose > 0
  /\ may_tick' = IF calibrating_ THEN may_tick ELSE may_tick - 1
  /\ may_lose' = IF answered THEN may_lose ELSE may_lose - 1
  /\ \E reply \in {IF answered
                    THEN WireFrame(NextSeq(seq_), SHELLY_DIMMER_PROTO_CMD_POLL,
                                   LampPoll(scen.lamp, light))
                    ELSE <<>>} :
     \E sc \in {send_command_(buffer_, buffer_pos_, rx, seq_, SHELLY_DIMMER_PROTO_CMD_POLL,
                              <<>>, reply)} :
     \E power_sensor_ \in {IF sc.hf.eff.kind = "poll" /\ scen.sensor
                            THEN [has_state |-> TRUE, power |-> sc.hf.eff.a,
                                  voltage |-> sc.hf.eff.b, current |-> sc.hf.eff.c]
                            ELSE sensors} :
     \E c0 \in {Cal} :
     \E c \in {IF ~calibrating_ \/ scen.null = "crash" THEN c0
                ELSE perform_calibration_measurement_(
                       c0, IF scen.sensor THEN power_sensor_ ELSE NullRead(scen.null))} :
         /\ seq_' = sc.seq
         /\ buffer_' = sc.buf
         /\ buffer_pos_' = sc.pos
         /\ rx' = sc.rx
         /\ hf_frame' = sc.frame
         /\ hf_ret' = sc.hf.ret
         /\ hf_count' = sc.hf_count
         /\ hf_read' = sc.hf.read
         /\ sc_result' = IF sc.ret THEN "true" ELSE "false"
         /\ sensors' = power_sensor_
         /\ SetCal(c)
  /\ pc' = IF calibrating_ /\ scen.null = "crash" THEN <<"crashed">> ELSE pc
  /\ CalQuiet
  /\ UNCHANGED <<may_start, may_clear>>

Update == \E answered \in BOOLEAN : UpdateWith(answered)

NextCal == StartCalibration \/ ClearCalibration \/ Update

SpecCal == InitCal /\ [][NextCal]_vars

\* the ticks keep coming, and the dimmer MCU answers again and again
SpecCalFair == SpecCal /\ WF_vars(UpdateWith(TRUE))

\* ------------------------------------------------------------ finalisation
\* the largest difference between neighbouring means of a family
MaxSpread == 7

\* how the 20 per-step means of a family lie: falling, rising, jumping about, or
\* in plateaus of five
MeanShapes ==
  { [i \in 1..MeasurementsSize |-> MeasurementsSize - i],
    [i \in 1..MeasurementsSize |-> i - 1],
    [i \in 1..MeasurementsSize |-> (i * 7) % MeasurementsSize],
    [i \in 1..MeasurementsSize |-> (MeasurementsSize - i) \div 5] }

\* Per-step mean powers (thousandths of a watt) a calibration can have collected
\* when its last step completes: spread 0 is a load that draws the same at every
\* brightness; the last is 100, 98, 95, ..., 5 W.
FinalMeans ==
  { [i \in 1..MeasurementsSize |-> base + d * 1000 * shape[i]] :
      base \in {0, 40000}, d \in 0..MaxSpread, shape \in MeanShapes }
  \cup
  { [i \in 1..MeasurementsSize |->
       1000 * (IF i = 1 THEN 100 ELSE IF i = 2 THEN 98
               ELSE IF i = MeasurementsSize THEN 5 ELSE 105 - 5 * i)] }

\* complete_calibration_step_ has written the mean of step 19 and is about to
\* call complete_calibration_
InitFinal ==
  /\ AfterSetup
  /\ seq_ = SeqAfterSetup
  /\ pc = <<"idle">>
  /\ cfg = PlainConfig
  /\ scen = NoScenario
  /\ sensors = [has_state |-> TRUE, power |-> 0, voltage |-> 0, current |-> 0]
  /\ calibration_data_ \in FinalMeans
  /\ calibrating_ = TRUE
  /\ calibration_step_ = MeasurementsSize /\ calibration_measurement_cnt_ = 0
  /\ calibration_measurements_ = [i \in 1..MeasurementsSize |-> 0]
  /\ light = One - 19 * CALIBRATION_STEP
  /\ brightness_ = One - 19 * CALIBRATION_STEP
  /\ update_interval_original_ \in {0, DefaultInterval}
  /\ update_interval = CalibrationInterval
  /\ saved = <<>>
  /\ may_lose = 0 /\ may_start = 0 /\ may_clear = 0 /\ may_tick = 0

\* complete_calibration_()
CompleteCalibration ==
  /\ pc = <<"idle">>
  /\ calibrating_ /\ calibration_step_ = MeasurementsSize
  /\ \E c \in {complete_calibration_(Cal)} : SetCal(c)
  /\ CalQuiet
  /\ UNCHANGED <<seq_, buffer_, buffer_pos_, sensors, rx, hf_frame, hf_ret, hf_count, hf_read,
                 sc_result, may_lose, may_start, may_clear, may_tick, pc>>

NextFinal == CompleteCalibration

SpecFinal == InitFinal /\ [][NextFinal]_vars

\* ------------------------------------------------------------ light writes
\* write_state calls in a run of the light
MaxLightWrites == 2

\* the brightness values the light is given: off, full, and values at and
\* around the entries of the tables below
LightLevels == {0, 1, 333, 334, 500, 666, 667, 949, 950, 999, One}

\* Tables complete_calibration_ leaves: of a lamp whose power falls evenly with
\* the brightness (StepTable), of one whose power falls in four plateaus, of one
\* whose power falls ever more slowly, and of a load that draws the same at
\* every brightness (all NaN).
PlateauTable == [i \in 1..20 |-> (((20 - i) \div 5) * One) \div 3]
ConvexTable  == [i \in 1..20 |-> ((20 - i) * (20 - i) * One) \div 361]
NaNTable     == [i \in 1..20 |-> NaN]

\* The calibration a light write meets: none was ever run; one was finished, now
\* or before the last boot (the table was saved and loaded); one is in its
\* warmup; one has completed its first step.
LightCalibrations ==
  { [calibrating |-> FALSE, step |-> 0, table |-> NoTable] }
  \cup { [calibrating |-> FALSE, step |-> 20, table |-> t] :
           t \in {StepTable, PlateauTable, ConvexTable, NaNTable} }
  \cup { [calibrating |-> TRUE, step |-> WarmupStart, table |-> NoTable],
         [calibrating |-> TRUE, step |-> 1,
          table |-> [i \in 1..20 |-> IF i = 1 THEN 880373 ELSE 0]] }

InitLight ==
  /\ AfterSetup
  /\ seq_ = SeqAfterSetup
  /\ pc = <<"idle">>
  /\ cfg \in Configs
  /\ scen = NoScenario
  /\ sensors = [has_state |-> TRUE, power |-> 0, voltage |-> 0, current |-> 0]
  /\ \E lc \in LightCalibrations :
       /\ calibration_data_ = lc.table
       /\ calibrating_ = lc.calibrating
       /\ calibration_step_ = lc.step
       /\ update_interval = IF lc.calibrating THEN CalibrationInterval ELSE DefaultInterval
       /\ update_interval_original_ = IF lc.step = 0 THEN 0 ELSE DefaultInterval
       /\ saved = IF lc.step = 20 THEN lc.table ELSE <<>>
       /\ light = IF ~lc.calibrating THEN 0
                  ELSE IF lc.step < 0 THEN One ELSE One - lc.step * CALIBRATION_STEP
  /\ calibration_measurement_cnt_ = 0
  /\ calibration_measurements_ = [i \in 1..MeasurementsSize |-> 0]
  /\ brightness_ = convert_brightness_(light)
  /\ may_lose = 1 /\ may_start = 0 /\ may_clear = 0 /\ may_tick = 0

\* what the dimmer MCU does with a SWITCH: it acknowledges it, answers with a
\* refusal, or stays silent
SwitchReplies == {"ack", "nack", "none"}
SwitchReply(kind, seq) ==
  IF kind = "none" THEN <<>>
  ELSE WireFrame(seq, SHELLY_DIMMER_PROTO_CMD_SWITCH, <<IF kind = "ack" THEN 1 ELSE 0>>)

\* a slip: the brightness is cached only when the SWITCH was acknowledged
send_brightness_caches_acked(brightness, cached, acked) ==
  IF acked THEN brightness ELSE cached

\* send_brightness_, line 278: this->brightness_ = brightness
send_brightness_caches(brightness, cached, acked) == brightness

\* write_state(state) with the light at brightness, from its call to its return:
\* the table lookup, the conversion, the comparison with brightness_ and, if
\* they differ, send_brightness_, whose SWITCH the dimmer MCU meets with reply
LightWrite(brightness, reply) ==
  /\ pc = <<"idle">>
  /\ ws_calls < MaxLightWrites
  /\ reply = "ack" \/ may_lose > 0
  /\ may_lose' = IF reply = "ack" THEN may_lose ELSE may_lose - 1
  /\ ws_calls' = ws_calls + 1
  /\ ws_unready' = IF ready_ THEN ws_unready ELSE ws_unready + 1
  /\ light' = brightness
  /\ \E brightness_int \in
          {convert_brightness_(Remapped(calibration_data_, calibrating_, brightness))} :
       IF write_state_sends(ready_, brightness_int, brightness_)
       THEN \E sc \in {send_command_(buffer_, buffer_pos_, rx, seq_,
                                     SHELLY_DIMMER_PROTO_CMD_SWITCH,
                                     <<brightness_int % 256, brightness_int \div 256>>,
                                     SwitchReply(reply, NextSeq(seq_)))} :
              /\ arg_brightness' = brightness_int
              /\ seq_' = sc.seq
              /\ buffer_' = sc.buf
              /\ buffer_pos_' = sc.pos
              /\ rx' = sc.rx
              /\ hf_frame' = sc.frame
              /\ hf_ret' = sc.hf.ret
              /\ hf_count' = sc.hf_count
              /\ hf_read' = sc.hf.read
              /\ sc_result' = IF sc.ret THEN "true" ELSE "false"
              /\ brightness_' = send_brightness_caches(brightness_int, brightness_,
                                                       sc.ret /\ sc.hf.ret)
       ELSE /\ reply = "ack"
            /\ UNCHANGED <<arg_brightness, seq_, buffer_, buffer_pos_, rx, hf_frame, hf_ret,
                           hf_count, hf_read, sc_result, brightness_>>
  /\ UNCHANGED <<version_major_, version_minor_, sensors, wire, scVars, calls, t_entry,
                 seq_entry, tx_log, rx_seen, replies, rf_last, stream, ready_, failed,
                 calibration_data_, calibrating_, cfgVars, calibration_step_,
                 calibration_measurement_cnt_, calibration_measurements_,
                 update_interval_original_, update_interval, saved, scen, may_start,
                 may_clear, may_tick, pinVars, fwVars, arg_boot0, log, pc>>

NextLight == \E brightness \in LightLevels, reply \in SwitchReplies : LightWrite(brightness, reply)

SpecLight == InitLight /\ [][NextLight]_vars

\* ------------------------------------------------------------ indices
\* Streams that take the parser to the end of buffer_ and past what it accepts:
\* a response with the longest payload the size check lets through (LEN 249,
\* 256 bytes in all, the last stored at buffer_[255]), and headers that announce
\* more (LEN 250, LEN 255) followed by further bytes and a start byte.
LongStreams ==
  { WireFrame(1, SHELLY_DIMMER_PROTO_CMD_POLL,
              [i \in 1..(SHELLY_DIMMER_BUFFER_SIZE - 7) |-> U8(3 + 7 * i)]) }
  \cup { <<1, 1, SHELLY_DIMMER_PROTO_CMD_POLL, len>> \o [i \in 1..12 |-> IF i = 6 THEN 1 ELSE 9] :
           len \in {SHELLY_DIMMER_BUFFER_SIZE - 6, 255} }

\* read_frame_ is called with one of these streams received after POLL was sent
InitLong ==
  /\ InitRest
  /\ pc = <<"read_frame">>
  /\ seq_entry = 0
  /\ seq_ = 1
  /\ arg_cmd = SHELLY_DIMMER_PROTO_CMD_POLL
  /\ arg_payload = <<>>
  /\ frame = frame_command_(seq_entry, arg_cmd, arg_payload)
  /\ stream \in LongStreams
  /\ rx = stream

\* The calibration runs, whose ticks receive the responses to POLL, and the
\* parser taken byte by byte through the long streams.
InitIndex == InitCal \/ InitLong

NextIndex == NextCal \/ RfByte

SpecIndex == InitIndex /\ [][NextIndex]_vars

\* ------------------------------------------------------------ claims: protocol
\* the time the running send_command_ has taken
Elapsed == U32Sub(millis, t_entry)

\* C1 (as stated; the code departs from it): send_command_ returns true only if
\* read_frame_ completed a frame whose SEQ byte equals the driver's current seq_;
\* a complete frame with another SEQ never makes send_command_ return true.
C1_TrueOnlyOnCurrentSeq ==
  (sc_result = "true") => (hf_frame # <<>> /\ At(hf_frame, 1) = seq_)

\* C2: when no byte is ever available, send_command_ writes the same frame exactly
\* 3 times, a full 200 ms window follows each write (600 ms in all), and then it
\* returns false; there is no 4th write and no return before the 3rd window ended.
C2_SilentLineThreeAttempts ==
  (calls > 0 /\ ~rx_seen) =>
    /\ Len(tx_log) <= 3
    /\ \A i \in 1..Len(tx_log) : tx_log[i] = frame /\ tx_log[i][2] = seq_
    /\ U32AtLeast(Elapsed, 200 * (Len(tx_log) - 1))
    /\ sc_result # "true"
    /\ (sc_result = "false" => (Len(tx_log) = 3 /\ U32AtLeast(Elapsed, 600)))

C2_Witness ==
  /\ calls > 0 /\ ~rx_seen /\ sc_result = "false"
  /\ Len(tx_log) = 3 /\ Elapsed = <<0, 600>> /\ millis[1] = 0

\* C3: every send_command_ call increments seq_ by exactly 1 modulo 256, once;
\* the frame, on every attempt, carries the incremented value; successive calls
\* carry SEQ values that differ by 1 modulo 256.
C3_SeqStepsByOne ==
  /\ seq_ = (SeqStart + calls) % 256
  /\ (calls > 0) =>
       /\ seq_ = (seq_entry + 1) % 256
       /\ frame[2] = seq_
       /\ \A i \in 1..Len(tx_log) : tx_log[i][2] = seq_

C3_Witness ==
  /\ calls = 2 /\ seq_entry = 0 /\ seq_ = 1
  /\ Len(tx_log) = 3 /\ tx_log[3][2] = 1 /\ sc_result = "false"

\* C6 (as stated; the code departs from it): a well-formed response with the
\* current SEQ that handle_frame_ rejects (a SWITCH or SETTINGS ack that is empty
\* or does not start with 0x01, a VERSION response shorter than 2 bytes, an unknown
\* CMD) does not make send_command_ return true.
C6_RejectedAtDispatchIsNoSuccess ==
  (sc_result = "true" /\ hf_frame # <<>> /\ At(hf_frame, 1) = seq_) =>
    LET cmd == At(hf_frame, 2)
        len == At(hf_frame, 3)
    IN  /\ cmd \in {SHELLY_DIMMER_PROTO_CMD_SWITCH, SHELLY_DIMMER_PROTO_CMD_SETTINGS}
             => (len >= 1 /\ At(hf_frame, 4) = 1)
        /\ cmd = SHELLY_DIMMER_PROTO_CMD_VERSION => len >= 2
        /\ cmd \in {SHELLY_DIMMER_PROTO_CMD_SWITCH, SHELLY_DIMMER_PROTO_CMD_SETTINGS,
                    SHELLY_DIMMER_PROTO_CMD_VERSION, SHELLY_DIMMER_PROTO_CMD_POLL}

\* ------------------------------------------------------------ claims: framing
\* the bytes of the stream read so far
Fed == rf_last.n

\* the 16-bit sum of SEQ..last payload byte of a frame with payload p
SumOf(seq, cmd, p) == (seq + cmd + Len(p) + SumBytes(p)) % 65536

\* C4: the bytes frame_command_ produces, read one by one from buffer_pos_ = 0,
\* give "advance" on every byte but the last and "complete" on the last; the
\* buffer then holds the same cmd, LEN and payload, and its two checksum bytes,
\* high first, are the sum modulo 2^16 of the bytes SEQ..last payload byte.
C4_FrameRoundTrip ==
  (stream = frame) =>
    LET len == Len(arg_payload) IN
    /\ (Fed > 0 /\ Fed < Len(frame)) => (rf_last.r = 1 /\ hf_count = 0)
    /\ (Fed = Len(frame)) =>
         /\ rf_last.r = 0
         /\ hf_count = 1
         /\ Len(hf_frame) = 4 + len + 3
         /\ At(hf_frame, 1) = seq_
         /\ At(hf_frame, 2) = arg_cmd
         /\ At(hf_frame, 3) = len
         /\ SubSeq(hf_frame, 5, 4 + len) = arg_payload
         /\ At(hf_frame, 4 + len) * 256 + At(hf_frame, 5 + len)
              = SumOf(seq_, arg_cmd, arg_payload)

C4_Witness ==
  /\ stream = frame /\ Fed = Len(frame) /\ hf_count = 1
  /\ Len(arg_payload) = 72 /\ arg_payload[1] = 255
  /\ At(hf_frame, 76) = 72 /\ arg_cmd = SHELLY_DIMMER_PROTO_CMD_SWITCH /\ seq_ = 0

\* a frame as section 3 defines it
WellFormed(f) ==
  /\ Len(f) >= 7
  /\ f[1] = 1
  /\ Len(f) = 4 + f[4] + 3
  /\ f[Len(f) - 2] * 256 + f[Len(f) - 1] = SumBytes(SubSeq(f, 2, 4 + f[4])) % 65536
  /\ f[Len(f)] = 4

\* what is wrong with the byte v.c stored at v.pos, if anything
BadStart(v) == v.pos = 0 /\ v.c # 1
Oversize(v) == v.pos >= 4 /\ 4 + v.buf[4] + 3 > SHELLY_DIMMER_BUFFER_SIZE
BadChecksum(v) ==
  /\ v.pos >= 4 /\ ~Oversize(v) /\ v.pos = 4 + v.buf[4] + 1
  /\ v.buf[v.pos] * 256 + v.c # SumBytes(SubSeq(v.buf, 2, 4 + v.buf[4])) % 65536
BadEnd(v) == v.pos >= 4 /\ ~Oversize(v) /\ v.pos = 4 + v.buf[4] + 2 /\ v.c # 4
Defect(v) == v.n > 0 /\ (BadStart(v) \/ Oversize(v) \/ BadChecksum(v) \/ BadEnd(v))

\* C5: handle_frame_ is invoked only on a buffer that begins with START, whose two
\* checksum bytes are the 16-bit sum of SEQ..last payload byte, and that ends with
\* END; on a bad start byte, an oversize LEN, a checksum mismatch or a bad end byte
\* the frame in progress is dropped, buffer_pos_ is 0, handle_frame_ is not
\* invoked, and reading goes on with the next byte.
C5_ParserSound ==
  /\ [](/\ (hf_count > 0) => WellFormed(hf_frame)
        /\ (rf_last.r = 0) => WellFormed(rf_last.buf)
        /\ Defect(rf_last) => (rf_last.r = -1 /\ buffer_pos_ = 0 /\ buffer_ = <<>>))
  /\ [][(rf_last' # rf_last /\ Defect(rf_last'))
          => (hf_count' = hf_count /\ hf_frame' = hf_frame
              /\ rx' = Tail(rx) /\ pc' = pc)]_vars

C5_Witness ==
  /\ BadChecksum(rf_last) /\ rf_last.n > 0 /\ buffer_pos_ = 0 /\ hf_count = 0
  /\ stream # frame /\ arg_cmd = SHELLY_DIMMER_PROTO_CMD_SWITCH /\ Len(arg_payload) = 2

\* ------------------------------------------------------------ claims: the driver
IsCmd(e, c) == e.ev = "cmd" /\ e.a = c
BootStep(e) == e.ev \in {"init", "erase", "write"}
InSendCommand == Head(pc) \in {"sc_loop", "sc_wait"}

\* C7 (as stated; the code departs from it): once mark_failed() has been called
\* because the upgrade failed, no further application command is written to the
\* UART by setup or write_state.
C7_FailedDriverSendsNothing ==
  \A i \in 1..Len(log) : log[i].ev = "mark_failed" =>
    \A j \in (i + 1)..Len(log) :
      log[j].ev = "cmd" => (j = Len(log) /\ InSendCommand /\ tx_log = <<>>)

\* C8: an upgrade is attempted only right after the reset into application mode
\* and the VERSION query, with the stored version not the configured one; it does
\* enter_dfu, init, mass erase, then the chunk writes, in that order; after the
\* first failing step no bootloader step, no enter_app and no VERSION follows (the
\* driver is marked failed); enter_app and the second VERSION come only after the
\* last chunk was written, and the driver is marked failed iff the version is
\* still not the configured one.
C8_UpgradeOrdering ==
  \A i \in 1..Len(log) :
    LET e == log[i] IN
    /\ e.ev = "upgrade" =>
         /\ i = 3 /\ log[1].ev = "enter_app"
         /\ IsCmd(log[2], SHELLY_DIMMER_PROTO_CMD_VERSION)
         /\ <<e.a, e.b>> # <<USE_SHD_FIRMWARE_MAJOR_VERSION, USE_SHD_FIRMWARE_MINOR_VERSION>>
    /\ e.ev = "enter_dfu" => (i > 1 /\ log[i - 1].ev = "upgrade")
    /\ e.ev = "init" => log[i - 1].ev = "enter_dfu"
    /\ e.ev = "erase" => (log[i - 1].ev = "init" /\ log[i - 1].c = 1)
    /\ e.ev = "write" => (log[i - 1].ev \in {"erase", "write"} /\ log[i - 1].c = 1)
    /\ (BootStep(e) /\ e.c = 0) =>
         /\ i < Len(log) => log[i + 1].ev = "mark_failed"
         /\ \A j \in (i + 1)..Len(log) :
              /\ ~BootStep(log[j])
              /\ log[j].ev \notin {"enter_dfu", "enter_app"}
              /\ ~IsCmd(log[j], SHELLY_DIMMER_PROTO_CMD_VERSION)
    /\ (e.ev = "enter_app" /\ i > 1) =>
         /\ log[i - 1].ev = "write" /\ log[i - 1].c = 1
         /\ log[i - 1].a + log[i - 1].b = build.fw_size
         /\ i < Len(log) => IsCmd(log[i + 1], SHELLY_DIMMER_PROTO_CMD_VERSION)
    /\ (IsCmd(e, SHELLY_DIMMER_PROTO_CMD_VERSION) /\ i > 2) =>
         /\ log[i - 1].ev = "enter_app"
         /\ i < Len(log) =>
              ((log[i + 1].ev = "mark_failed")
                 <=> ~(version_major_ = USE_SHD_FIRMWARE_MAJOR_VERSION
                       /\ version_minor_ = USE_SHD_FIRMWARE_MINOR_VERSION))

C8_Witness ==
  \E i \in 1..Len(log) :
    /\ log[i].ev = "write" /\ log[i].a = 256 /\ log[i].c = 1
    /\ Len(log) >= i + 3
    /\ log[i + 1].ev = "enter_app"
    /\ log[i + 3].ev = "mark_failed"
    /\ version_major_ = 50

\* the last reset the driver asked for
LastEnter ==
  LET is == { i \in 1..Len(log) : log[i].ev \in {"enter_app", "enter_dfu"} }
  IN  IF is = {} THEN "none" ELSE log[CHOOSE i \in is : \A j \in is : j <= i].ev
InReset ==
  Head(pc) \in {"rs_boot0", "rs_nrst_low", "rs_delay1", "rs_drain", "rs_nrst_high", "rs_delay2"}

\* the pins and the drain of reset_(boot0): BOOT0 is at the requested level
\* before NRST goes low and until after it has gone high, and the receive FIFO is
\* empty when NRST goes high
ResetPinsInOrder ==
  /\ Head(pc) = "rs_nrst_low" => (pin_boot0 = arg_boot0 /\ pin_nrst)
  /\ ~pin_nrst => (pin_boot0 = arg_boot0 /\ InReset)
  /\ Head(pc) = "rs_nrst_high" => rx = <<>>
  /\ Head(pc) = "rs_delay2" => (pin_nrst /\ boot0_at_rise = arg_boot0 /\ pin_boot0 = arg_boot0)
  /\ rx_at_rise = <<>>
  /\ LastEnter # "none" => (arg_boot0 <=> LastEnter = "enter_dfu")

Rank(e) ==
  IF IsCmd(e, SHELLY_DIMMER_PROTO_CMD_SETTINGS) THEN 2
  ELSE IF IsCmd(e, SHELLY_DIMMER_PROTO_CMD_SWITCH) THEN 3
  ELSE IF IsCmd(e, SHELLY_DIMMER_PROTO_CMD_POLL) THEN 4
  ELSE IF e.ev = "load" THEN 5
  ELSE IF e.ev = "ready" THEN 6
  ELSE 1

\* the part of the log that setup wrote
SetupLen ==
  IF \E i \in 1..Len(log) : log[i].ev = "ready"
  THEN CHOOSE i \in 1..Len(log) : log[i].ev = "ready"
  ELSE Len(log)

\* C10: setup does the reset into application mode, VERSION, the upgrade if any,
\* SETTINGS, SWITCH with the brightness of the SETTINGS payload, POLL, the
\* calibration load, and only then sets ready_; every SETTINGS is followed at once
\* by that SWITCH; write_state while ready_ is false sends nothing and changes
\* nothing of the driver.
C10_SetupOrder ==
  /\ [](/\ Len(log) >= 1 => log[1].ev = "enter_app"
        /\ Len(log) >= 2 => IsCmd(log[2], SHELLY_DIMMER_PROTO_CMD_VERSION)
        /\ \A i \in 1..(SetupLen - 1) :
             \/ Rank(log[i + 1]) = Rank(log[i]) + 1
             \/ (Rank(log[i]) = 1 /\ Rank(log[i + 1]) = 1)
        /\ \A i \in 1..Len(log) : IsCmd(log[i], SHELLY_DIMMER_PROTO_CMD_SETTINGS) =>
             IF i < Len(log)
             THEN IsCmd(log[i + 1], SHELLY_DIMMER_PROTO_CMD_SWITCH) /\ log[i + 1].b = log[i].b
             ELSE Head(pc) \in {"sc_loop", "sc_wait", "ss_1", "sb_0"}
        /\ ready_ <=> (\E i \in 1..Len(log) : log[i].ev = "ready")
        /\ ~ready_ => (\A i \in 1..Len(log) : Rank(log[i]) = 3 => (i > 1 /\ Rank(log[i - 1]) = 2)))
  /\ [][(ws_calls' # ws_calls /\ ~ready_) =>
          UNCHANGED <<objVars, uartVars, lightVars, pinVars, fwVars, log, calls, tx_log, pc>>]_vars

C10_Witness ==
  /\ ready_ /\ ws_unready > 0 /\ pc = <<"idle">>
  /\ log[Len(log)].ev = "ready"
  /\ \E i \in 1..Len(log) : log[i].ev = "upgrade"
  /\ \E i \in 1..Len(log) : IsCmd(log[i], SHELLY_DIMMER_PROTO_CMD_SETTINGS) /\ log[i].b = 500

\* ------------------------------------------------------------ claims: calibration
\* a tick: update() has run (its send_command_ took the next sequence number)
Tick == seq_' # seq_

\* the brightness step k of a calibration is measured at
StepBrightness(k) == IF k < 0 THEN One ELSE One - k * CALIBRATION_STEP

\* C11 (as stated; the code departs from it when no power sensor is configured):
\* after start_calibration (step -20, count 0, calibrating) a tick on which
\* the power sensor has no reading changes nothing of the calibration; each of the
\* first 20 ticks with a reading only increments the step; after that each tick
\* with a reading records one measurement, and the 20th of a step writes the mean
\* into table[step], increments the step and clears the buffer; the brightness
\* goes down by 0.05 after each of the steps 0..18 (step k is measured at
\* 1 - 0.05 k) and not after step 19; the calibration is finished exactly when
\* the step reaches 20, which clears calibrating; and a calibration that runs is
\* eventually finished.
C11_CalibrationProgression ==
  /\ [][(Tick /\ calibrating_) =>
          IF ~sensors'.has_state
          THEN UNCHANGED <<calibration_step_, calibration_measurement_cnt_,
                           calibration_measurements_, calibration_data_, calibrating_,
                           light, update_interval, saved>>
          ELSE IF calibration_step_ < 0
          THEN /\ calibration_step_' = calibration_step_ + 1
               /\ UNCHANGED <<calibration_measurement_cnt_, calibration_measurements_,
                              calibration_data_, calibrating_, light, saved>>
          ELSE IF calibration_measurement_cnt_ < 19
          THEN /\ calibration_measurement_cnt_' = calibration_measurement_cnt_ + 1
               /\ calibration_measurements_' =
                    [calibration_measurements_ EXCEPT ![calibration_measurement_cnt_ + 1] =
                                                         sensors'.power]
               /\ UNCHANGED <<calibration_step_, calibration_data_, calibrating_, light, saved>>
          ELSE /\ calibration_step_' = calibration_step_ + 1
               /\ calibration_measurement_cnt_' = 0
               /\ calibration_measurements_' = [i \in 1..20 |-> 0]
               /\ IF calibration_step_ < 19
                  THEN /\ calibration_data_' =
                            [calibration_data_ EXCEPT ![calibration_step_ + 1] =
                               (SumBytes(calibration_measurements_) + sensors'.power) \div 20]
                       /\ light' = light - 50
                       /\ calibrating_'
                       /\ UNCHANGED saved
                  ELSE ~calibrating_']_vars
  /\ [][(Tick /\ ~calibrating_) =>
          UNCHANGED <<calibration_step_, calibration_measurement_cnt_,
                      calibration_measurements_, calibration_data_, calibrating_, light>>]_vars
  /\ [][(may_start' # may_start) =>
          (calibration_step_' = 0 - 20 /\ calibration_measurement_cnt_' = 0 /\ calibrating_'
           /\ light' = One)]_vars
  /\ [][(calibrating_ /\ ~calibrating_') => (Tick /\ calibration_step_' = 20)]_vars
  /\ [](/\ calibrating_ =>
             /\ calibration_step_ \in (0 - 20)..19
             /\ calibration_measurement_cnt_ \in 0..19
             /\ (calibration_step_ < 0 => calibration_measurement_cnt_ = 0)
             /\ light = StepBrightness(calibration_step_)
        /\ calibration_step_ = 20 => ~calibrating_)
  /\ (calibrating_ ~> ~calibrating_)

\* C12 (as stated; the code departs from it): in every state of the driver, after
\* setup's load, during a calibration, after its finalisation and after
\* clear_calibration, the table is uncalibrated (table[0] = 0) or it is
\* non-increasing with every entry in [0, 1].
C12_TableInvariant ==
  \/ calibration_data_[1] = 0
  \/ /\ \A i \in 1..Len(calibration_data_) :
          calibration_data_[i] # NaN /\ 0 <= calibration_data_[i] /\ calibration_data_[i] <= One
     /\ \A i \in 1..(Len(calibration_data_) - 1) :
          calibration_data_[i] >= calibration_data_[i + 1]

\* v -> (v - min) / (max - min) for the means t, in thousandths
Normalised(t, v) ==
  LET max == CHOOSE x \in {t[i] : i \in 1..Len(t)} : \A j \in 1..Len(t) : t[j] <= x
      min == CHOOSE x \in {t[i] : i \in 1..Len(t)} : \A j \in 1..Len(t) : t[j] >= x
  IN  ((v - min) * One) \div (max - min)

\* C13 (as stated; the code departs from it): complete_calibration_, given 20
\* per-step means that are not all equal, leaves the means sorted in descending
\* order and mapped by v -> (v - min) / (max - min): a non-increasing table with
\* table[0] = 1 and table[19] = 0 that holds each mapped value as often as the
\* means give it, and passes exactly that table to the save; given 20 equal means
\* it leaves a table that is all 0 or all 1.
C13_FinalisationResult ==
  [][(calibrating_ /\ ~calibrating_') =>
       IF \E i \in 1..20 : calibration_data_[i] # calibration_data_[1]
       THEN /\ \A i \in 1..19 : calibration_data_'[i] >= calibration_data_'[i + 1]
            /\ calibration_data_'[1] = One /\ calibration_data_'[20] = 0
            /\ \A i \in 1..20 :
                 Cardinality({j \in 1..20 : calibration_data_'[j] =
                                               Normalised(calibration_data_, calibration_data_[i])})
                 = Cardinality({j \in 1..20 : Normalised(calibration_data_, calibration_data_[j]) =
                                               Normalised(calibration_data_, calibration_data_[i])})
            /\ saved' = calibration_data_'
       ELSE \/ calibration_data_' = [i \in 1..20 |-> 0]
            \/ calibration_data_' = [i \in 1..20 |-> One]]_vars

\* C14 (as stated; the code departs from it): while a calibration runs the
\* poller's interval is 1000 ms, and after the finalisation that follows any
\* sequence of start_calibration calls (one made while a calibration runs
\* included) it is the interval configured before the first of them, or 10000 ms
\* if that was 0.
C14_IntervalRestored ==
  /\ calibrating_ => update_interval = 1000
  /\ (~calibrating_ /\ calibration_step_ = 20) =>
       update_interval = IF scen.interval = 0 THEN 10000 ELSE scen.interval

\* a write_state call of the light has run
LightWritten == ws_calls' # ws_calls

\* the 16-bit brightness a write_state call has arrived at: the one it sent, or
\* the cached one it found unchanged
WrittenInt == IF seq_' # seq_ THEN arg_brightness' ELSE brightness_

\* remap<uint16_t, float>(b, 0, 1, min_brightness, max_brightness), in thousandths
Converted(b) == (b * (cfg.max_brightness - cfg.min_brightness)) \div One + cfg.min_brightness

\* C15: write_state puts the brightness through the table iff calibrating is
\* false, table[0] is not 0 and the brightness is strictly between 0 and 1:
\* otherwise (brightness 0 or 1, a calibration running, no table) the brightness
\* is converted as it is; brightness 0 converts to 0, brightness 1 to
\* max_brightness and every other brightness to a value within
\* [min_brightness, max_brightness].
C15_RemapGuard ==
  [][LightWritten =>
       /\ WrittenInt =
            IF ~calibrating_ /\ calibration_data_[1] # 0 /\ 0 < light' /\ light' < One
            THEN Converted(Remapped(calibration_data_, FALSE, light'))
            ELSE IF light' = 0 THEN 0 ELSE Converted(light')
       /\ light' = 0 => WrittenInt = 0
       /\ light' = One => WrittenInt = cfg.max_brightness
       /\ light' # 0 => (cfg.min_brightness <= WrittenInt /\ WrittenInt <= cfg.max_brightness)]_vars

\* a calibration has completed its first step when the light is set to 0.95: the
\* table holds a raw mean, and the brightness went out as it was
C15_Witness ==
  /\ ws_calls > 0 /\ calibrating_ /\ calibration_data_[1] = 880373
  /\ light = 949 /\ brightness_ = Converted(949) /\ arg_brightness = Converted(949)

\* a table as a finished calibration leaves it: non-increasing from 1 to 0
Populated(t) ==
  /\ \A i \in 1..20 : t[i] # NaN
  /\ \A i \in 1..19 : t[i] >= t[i + 1]
  /\ t[1] = One /\ t[20] = 0

\* the smallest pos in 0..19 with t[pos] < b, or 20 if there is none
SmallestBelow(t, b) ==
  IF \E p \in 0..19 : t[p + 1] # NaN /\ t[p + 1] < b
  THEN CHOOSE p \in 0..19 :
         /\ t[p + 1] # NaN /\ t[p + 1] < b
         /\ \A q \in 0..(p - 1) : ~(t[q + 1] # NaN /\ t[q + 1] < b)
  ELSE 20

\* C16: when write_state looks a brightness b strictly between 0 and 1 up in a
\* populated table, it takes the smallest pos with table[pos] < b, which is
\* neither 0 nor 20; the result is b mapped affinely from
\* [table[pos], table[pos-1]] onto [1 - 0.05 pos, 1 - 0.05 pos + 0.05], lies in
\* that range and so within [1 - 20 * 0.05, 1], and no larger brightness gives a
\* smaller result; with a table for which pos is 0 or 20 the brightness goes on
\* unchanged.
C16_RuntimeRemap ==
  [][(LightWritten /\ ~calibrating_ /\ calibration_data_[1] # 0 /\ 0 < light' /\ light' < One) =>
       LET t   == calibration_data_
           b   == light'
           pos == SmallestBelow(t, b)
           lo  == One - pos * 50
           r   == ((b - t[pos + 1]) * 50) \div (t[pos] - t[pos + 1]) + lo
       IN  IF Populated(t)
           THEN /\ pos # 0 /\ pos # 20
                /\ WrittenInt = Converted(r)
                /\ lo <= r /\ r <= lo + 50
                /\ One - 20 * 50 <= r /\ r <= One
                /\ \A b2 \in LightLevels :
                     (b < b2 /\ b2 < One) => r <= Remapped(t, calibrating_, b2)
           ELSE (pos = 0 \/ pos = 20) => WrittenInt = Converted(b)]_vars

\* the light was set to 0.666 with the table of four plateaus: the entries equal
\* to 0.666 are passed over, pos is 10 and 0.55 went out
C16_Witness ==
  /\ ws_calls > 0 /\ ~calibrating_ /\ calibration_data_ = PlateauTable
  /\ light = 666 /\ arg_brightness = Converted(550) /\ brightness_ = Converted(550)
  /\ sc_result = "true"

\* the last SWITCH was not acknowledged: send_command_ gave up, or the response
\* was a refusal
SwitchUnacked == sc_result = "false" \/ (hf_count = 1 /\ ~hf_ret)

\* C20: once the driver is ready, write_state transmits a SWITCH iff the
\* converted 16-bit brightness differs from the cached brightness_, and the
\* SWITCH carries the converted value; send_brightness_ makes the value it
\* transmitted the cached one whether the SWITCH was acknowledged or not; so a
\* write_state that follows an unacknowledged SWITCH with the same brightness
\* transmits nothing.
C20_Deduplication ==
  /\ [][(LightWritten /\ ready_) =>
          LET brightness_int ==
                convert_brightness_(Remapped(calibration_data_, calibrating_, light'))
          IN  IF brightness_int # brightness_
              THEN /\ seq_' = NextSeq(seq_)
                   /\ arg_brightness' = brightness_int
                   /\ brightness_' = brightness_int
              ELSE UNCHANGED <<seq_, brightness_, sc_result, hf_count>>]_vars
  /\ [][(LightWritten /\ ws_calls > 0 /\ SwitchUnacked /\ light' = light) =>
          UNCHANGED <<seq_, brightness_>>]_vars

\* the light was set to 0.5 twice; the SWITCH of the first write_state was never
\* answered, and the second write_state sent nothing
C20_Witness ==
  /\ ws_calls = 2 /\ light = One \div 2 /\ ~calibrating_ /\ calibration_data_ = NoTable
  /\ sc_result = "false" /\ hf_count = 0
  /\ seq_ = SeqAfterSetup + 1
  /\ brightness_ = Converted(One \div 2)

\* C17 (as stated; the code departs from it): a POLL response with the current
\* SEQ is decoded and published only if its payload has at least 17 bytes; one
\* with a shorter payload, 16 bytes in particular, is rejected at dispatch and
\* nothing of it is read; and no payload byte at an index of LEN or more is read.
C17_PollPayloadLength ==
  (hf_count > 0 /\ hf_frame # <<>> /\ At(hf_frame, 1) = seq_
     /\ At(hf_frame, 2) = SHELLY_DIMMER_PROTO_CMD_POLL) =>
    LET len == At(hf_frame, 3)
    IN  /\ hf_ret => len >= 17
        /\ len < 17 => (~hf_ret /\ hf_read = 0)
        /\ hf_read <= len

\* the POLL of this tick was answered by a response that handle_frame_ decoded
\* and published
FreshReading == sc_result' = "true" /\ hf_count' = 1 /\ hf_ret' /\ sensors'.has_state

\* C18 (as stated; the code departs from it): a tick sends POLL and then, if
\* calibrating, advances the calibration; a power value it records is the one
\* the POLL response of this very tick published, and a tick whose POLL got no
\* valid response records nothing and does not advance the warmup.
C18_FreshReadings ==
  [][(Tick /\ calibrating_) =>
       IF FreshReading
       THEN (calibration_step_ >= 0 /\ calibration_measurement_cnt_ < 19) =>
              /\ calibration_measurement_cnt_' = calibration_measurement_cnt_ + 1
              /\ calibration_measurements_'[calibration_measurement_cnt_ + 1] = sensors'.power
       ELSE UNCHANGED <<calibration_step_, calibration_measurement_cnt_,
                        calibration_measurements_>>]_vars

\* the writes of the image made so far, in order
IsWrite(e) == e.ev = "write"
ImageWrites == SelectSeq(log, IsWrite)

\* C19 (as stated; the code departs from it): for an image of S >= 1 bytes and a
\* flash base F the k-th write of the loop is at address F + 256 k with length
\* min(256, S - 256 k); when every write succeeds the loop ends after
\* ceil(S / 256) writes that cover [F, F + S) without a gap; and no iteration
\* reads bytes of the image at an offset of S or more.
C19_FirmwareWriteLoop ==
  LET S == build.fw_size
  IN  /\ \A k \in 1..Len(ImageWrites) :
           /\ ImageWrites[k].a = BUFFER_SIZE * (k - 1)
           /\ ImageWrites[k].b = Min(BUFFER_SIZE, S - BUFFER_SIZE * (k - 1))
      /\ Head(pc) = "up_write" => addr = FlashStart + offset
      /\ up_result =>
           /\ Len(ImageWrites) = (S + BUFFER_SIZE - 1) \div BUFFER_SIZE
           /\ offset = S /\ addr = FlashStart + S
      /\ src_read_end <= S

Contains(s, f) ==
  \E i \in 0..(Len(s) - Len(f)) : SubSeq(s, i + 1, i + Len(f)) = f

\* what read_frame_ finds available in this iteration of the ack loop: what was
\* received and not read, and what has arrived of the line since
ArrivedNow == rx \o SubSeq(wire, 1, Len(wire) - Len(wire'))

\* C22: when, in an iteration of the ack loop inside the window of an attempt,
\* the well-formed, acknowledged response with the SEQ of the command has
\* arrived in full, send_command_ returns true in that iteration, whatever bytes
\* were received before the response and wherever buffer_pos_ was left.
C22_ResponseAcceptance ==
  [][(/\ Head(pc) = "sc_wait"
      /\ polls' = polls + 1
      /\ Contains(ArrivedNow, GoodReply(At(frame, 1), arg_cmd)))
     => sc_result' = "true"]_vars

====
